---- MODULE Spec2Model ----
(***************************************************************************)
(* nvo_servers: the epoll reactor, the worker pool and the per-connection  *)
(* Read / Write / Flush state machine (AsyncHandler::handle_async_better). *)
(* Byte strings are sequences of one-character strings.                    *)
(***************************************************************************)
EXTENDS FiniteSets, Integers, Sequences, TLC

VARIABLES
    connections,   \* the reactor's table: fd -> ConnState, or NoEntry
    sock,          \* per fd: the TCP stream as the server and the peer see it
    chan,          \* per worker: its mpsc channel (messages not yet received)
    alive,         \* per worker: the worker thread (and its Receiver) exists
    next_worker,   \* Workers::next_worker
    running,       \* per worker: the task it is polling, or Idle
    held,          \* per fd: (conn, state) a direct caller of the step holds
    accepts,       \* number of connections opened so far
    reactor,       \* the thread in start_blocking: "polling", or "panicked"
    shutdown_requested,  \* a shutdown of the server was asked for
    tasks,         \* per future queued on the pool by its user: the Task made for it
    stopped,       \* per worker: it received Shutdown and left its loop
    poisoned,      \* Workers::poison_all was called (the pool is consumed)
    joining,       \* where the thread in poison_all is: the worker it joins
    value,         \* a ResultHandle shared by threads: ResultHandle::value
    thr,           \* per thread that shares it: its call on the handle
    hist,          \* the values sets stored in the handle and takes returned
    body_reader,   \* per fd: the body reader of the request, AsyncRequest::body
    router         \* a PathRouter its user adds routes to and asks for matches

vars == <<connections, sock, chan, alive, next_worker, running, held, accepts,
          reactor, shutdown_requested, tasks, stopped, poisoned, joining,
          value, thr, hist, body_reader, router>>

\* The futures a user of the pool queues, apart from the server's
poolVars == <<tasks, stopped, poisoned, joining>>

\* The server around the pool
serverVars == <<connections, sock, running, held, accepts, reactor, shutdown_requested,
                body_reader, router>>

\* A ResultHandle used on its own by several threads
handleVars == <<value, thr, hist>>

\* What the steps of the workers, of the peers and of a direct caller leave alone
otherVars == <<reactor, shutdown_requested, poolVars, handleVars, body_reader, router>>

----------------------------------------------------------------------------
(* Bounds of the model.                                                    *)

NumWorkers == 2
MaxAccepts == 2
\* the part of a response a socket of the reactor takes when it does not take all
WriteChunk == 32
\* futures queued on the pool by its user, and calls of their wakers
MaxTasks == 3
MaxWakes == 2
\* MAX_REQUEST_SIZE and INITIAL_BUFFER_SIZE of async_handler.rs, scaled down
MAX_REQUEST_SIZE == 13
INITIAL_BUFFER_SIZE == 12
\* threads that share one ResultHandle, and the calls they make on it
NumThreads == 3
MaxCalls == 4
\* the longest Content-Length, and the calls of body() on one connection
MaxBody == 2
MaxBodyCalls == 2

\* The descriptors a connection may get
Fds == {1, 2}
WorkerIds == 0..(NumWorkers - 1)
TaskIds == 1..MaxTasks
Threads == 1..NumThreads

----------------------------------------------------------------------------
(* Byte strings.                                                           *)

CRLF == <<"\r", "\n">>
CRLFCRLF == <<"\r", "\n", "\r", "\n">>

Min(a, b) == IF a <= b THEN a ELSE b

Take(s, n) == SubSeq(s, 1, Min(n, Len(s)))
Drop(s, n) == SubSeq(s, Min(n, Len(s)) + 1, Len(s))

IsPrefix(p, s) == Len(p) <= Len(s) /\ SubSeq(s, 1, Len(p)) = p

\* str::find: the 0-based offset of the first occurrence of pat in s, or -1
Find(s, pat) ==
    LET hits == {i \in 0..(Len(s) - Len(pat)) : SubSeq(s, i + 1, i + Len(pat)) = pat}
    IN  IF hits = {} THEN -1 ELSE CHOOSE i \in hits : \A j \in hits : i <= j

\* str::split(sep), sep one character: the pieces between separators, in order
RECURSIVE Split(_, _)
Split(s, sep) ==
    LET k == Find(s, <<sep>>)
    IN  IF k = -1 THEN <<s>>
        ELSE <<SubSeq(s, 1, k)>> \o Split(SubSeq(s, k + 2, Len(s)), sep)

\* Iterator::filter(|s| !s.is_empty())
RECURSIVE NonEmpty(_)
NonEmpty(ss) ==
    IF ss = <<>> THEN <<>>
    ELSE (IF Head(ss) = <<>> THEN <<>> ELSE <<Head(ss)>>) \o NonEmpty(Tail(ss))

Digit(d) == <<"0", "1", "2", "3", "4", "5", "6", "7", "8", "9">>[d + 1]

\* format!("{n}") of an unsigned integer
RECURSIVE Decimal(_)
Decimal(n) == IF n < 10 THEN <<Digit(n)>> ELSE Decimal(n \div 10) \o <<Digit(n % 10)>>

\* str::parse::<u16> of a decimal numeral
RECURSIVE parse_u16(_)
parse_u16(str) ==
    IF str = <<>> THEN 0
    ELSE parse_u16(SubSeq(str, 1, Len(str) - 1)) * 10
         + (CHOOSE d \in 0..9 : Digit(d) = str[Len(str)])

----------------------------------------------------------------------------
(* Responses.                                                              *)

Response(code, body) == [status_code |-> code, response_body |-> body]

get_status_msg(code) ==
    CASE code = 200 -> <<"O", "K">>
      [] code = 201 -> <<"C", "r", "e", "a", "t", "e", "d">>
      [] code = 204 -> <<"N", "o", " ", "C", "o", "n", "t", "e", "n", "t">>
      [] code = 301 -> <<"M", "o", "v", "e", "d", " ", "P", "e", "r", "m", "a", "n",
                         "e", "n", "t", "l", "y">>
      [] code = 400 -> <<"B", "a", "d", " ", "R", "e", "q", "u", "e", "s", "t">>
      [] code = 401 -> <<"U", "n", "a", "u", "t", "h", "o", "r", "i", "z", "e", "d">>
      [] code = 403 -> <<"F", "o", "r", "b", "i", "d", "d", "e", "n">>
      [] code = 404 -> <<"N", "o", "t", " ", "F", "o", "u", "n", "d">>
      [] code = 409 -> <<"C", "o", "n", "f", "l", "i", "c", "t">>
      [] code = 415 -> <<"U", "n", "s", "u", "p", "p", "o", "r", "t", "e", "d", " ",
                         "M", "e", "d", "i", "a", " ", "T", "y", "p", "e">>
      [] code = 418 -> <<"I", "'", "m", " ", "a", " ", "t", "e", "a", "p", "o", "t">>
      [] code = 500 -> <<"I", "n", "t", "e", "r", "n", "a", "l", " ", "S", "e", "r",
                         "v", "e", "r", " ", "E", "r", "r", "o", "r">>
      [] code = 503 -> <<"S", "e", "r", "v", "i", "c", "e", " ", "U", "n", "a", "v",
                         "a", "i", "l", "a", "b", "l", "e">>
      [] code = 505 -> <<"H", "T", "T", "P", " ", "V", "e", "r", "s", "i", "o", "n",
                         " ", "N", "o", "t", " ", "S", "u", "p", "p", "o", "r", "t",
                         "e", "d">>
      [] OTHER -> <<"S", "t", "a", "t", "u", "s", " ", "c", "o", "d", "e", ":",
                    " ">>
                  \o Decimal(code)
                  \o <<",", " ", "n", "o", "t", " ", "f", "o", "u", "n", "d", ",",
                       " ", "p", "l", "e", "a", "s", "e", " ", "d", "e", "f", "i",
                       "n", "e", " ", "i", "t", "!">>

get_status_line(res) ==
    <<"H", "T", "T", "P", "/", "1", ".", "1", " ">>
    \o Decimal(res.status_code) \o <<" ">> \o get_status_msg(res.status_code)

\* format!("{status_line}\r\nContent-Length: {length}\r\n\r\n{contents}")
Serialize(res) ==
    get_status_line(res) \o CRLF
    \o <<"C", "o", "n", "t", "e", "n", "t", "-", "L", "e", "n", "g", "t", "h", ":", " ">>
    \o Decimal(Len(res.response_body)) \o CRLFCRLF \o res.response_body

----------------------------------------------------------------------------
(* Connection states, requests and handlers.                               *)

None == [some |-> FALSE, val |-> <<>>]
Some(v) == [some |-> TRUE, val |-> v]

AsyncHandler(method, path, func) == [method |-> method, path |-> path, func |-> func]

\* AsyncHandler::not_found(method) = AsyncHandler::new("", method, not_found_fn)
not_found(method) == AsyncHandler(<<>>, method, "not_found_fn")

AsyncRequest(path, handler, path_params) ==
    [path |-> path, handler |-> handler, path_params |-> path_params]

NoRequest == AsyncRequest(<<>>, AsyncHandler(<<>>, <<>>, "none"), <<>>)

ReadState(partial) == [kind |-> "Read", partial |-> partial, req |-> NoRequest, written |-> 0]
WriteState(req, written) == [kind |-> "Write", partial |-> <<>>, req |-> req, written |-> written]
FlushState == [kind |-> "Flush", partial |-> <<>>, req |-> NoRequest, written |-> 0]

\* The handlers the server is built with, in add_route order.
Handlers ==
    << AsyncHandler(<<"G">>, <<"/", "a">>, "normal_handler"),
       AsyncHandler(<<"G">>, <<"/", "e">>, "err_handler"),
       AsyncHandler(<<"G">>, <<"/", "p">>, "panic_handler"),
       AsyncHandler(<<"G">>, <<"/", "s">>, "panic_string_handler"),
       AsyncHandler(<<"G">>, <<"/", "o">>, "panic_other_handler"),
       AsyncHandler(<<"G">>, <<"/", "u", "/", ":", "i">>, "normal_handler"),
       AsyncHandler(<<"P">>, <<"/", "u", "/", "1">>, "normal_handler"),
       AsyncHandler(<<"P">>, <<"/", "a">>, "normal_handler") >>

\* What a handler's future does when it is polled: it completes with
\* Ok(response) or Err(msg), or it panics with a payload.
HandlerFn(func, req) ==
    CASE func = "normal_handler" ->
            [kind |-> "Ok", res |-> Response(200, <<"O", "K">>)]
      [] func = "err_handler" ->
            [kind |-> "Err", msg |-> <<"b", "a", "d">>]
      [] func = "panic_handler" ->
            [kind |-> "Panic", payload |-> "&str", msg |-> <<"b", "o", "o", "m">>]
      [] func = "panic_string_handler" ->
            [kind |-> "Panic", payload |-> "String", msg |-> <<"b", "a", "n", "g">>]
      [] func = "panic_other_handler" ->
            [kind |-> "Panic", payload |-> "other", msg |-> <<>>]
      [] func = "status_handler" ->
            [kind |-> "Ok", res |-> Response(parse_u16(req.path_params["code"]), <<>>)]
      [] func = "not_found_fn" ->
            [kind |-> "Ok",
             res |-> Response(404, <<"R", "e", "s", "o", "u", "r", "c", "e", ":", " ">>
                                   \o req.path
                                   \o <<" ", "n", "o", "t", " ", "f", "o", "u", "n", "d", ".">>)]

----------------------------------------------------------------------------
(* Path router.                                                            *)

\* CompiledPath::new
CompiledPath(pattern) ==
    LET segs == NonEmpty(Split(pattern, "/"))
    IN  [i \in 1..Len(segs) |->
            IF Head(segs[i]) = ":"
            THEN [kind |-> "Parameter", s |-> Tail(segs[i])]
            ELSE [kind |-> "Literal", s |-> segs[i]]]

\* CompiledPath::matches
matches(compiled, path) ==
    LET path_segments == NonEmpty(Split(path, "/"))
    IN  IF Len(compiled) # Len(path_segments) THEN FALSE
        ELSE \A i \in 1..Len(compiled) :
                compiled[i].kind = "Literal" => compiled[i].s = path_segments[i]

extract_paramsFirst(compiled, path) ==
    LET segs == NonEmpty(Split(path, "/"))
        idx(n) == {i \in 1..Len(compiled) :
                      compiled[i].kind = "Parameter" /\ compiled[i].s = n}
        first(n) == CHOOSE i \in idx(n) : \A j \in idx(n) : i <= j
        names == {compiled[i].s : i \in {j \in 1..Len(compiled) :
                                            compiled[j].kind = "Parameter"}}
    IN  IF Len(compiled) # Len(segs) THEN None
        ELSE IF \E i \in 1..Len(compiled) :
                    compiled[i].kind = "Literal" /\ compiled[i].s # segs[i] THEN None
        ELSE Some([n \in names |-> segs[first(n)]])

\* CompiledPath::extract_params: None, or the map of parameter name to segment
\* (params.insert replaces the value a name already has)
extract_params(compiled, path) ==
    LET segs == NonEmpty(Split(path, "/"))
        idx(n) == {i \in 1..Len(compiled) :
                      compiled[i].kind = "Parameter" /\ compiled[i].s = n}
        last(n) == CHOOSE i \in idx(n) : \A j \in idx(n) : j <= i
        names == {compiled[i].s : i \in {j \in 1..Len(compiled) :
                                            compiled[j].kind = "Parameter"}}
    IN  IF Len(compiled) # Len(segs) THEN None
        ELSE IF \E i \in 1..Len(compiled) :
                    compiled[i].kind = "Literal" /\ compiled[i].s # segs[i] THEN None
        ELSE Some([n \in names |-> segs[last(n)]])

\* PathRouter::find_match over the routes added for Handlers
find_matchLast(path) ==
    LET hits == {i \in 1..Len(Handlers) :
                    extract_params(CompiledPath(Handlers[i].path), path).some}
    IN  IF hits = {} THEN None
        ELSE LET i == CHOOSE k \in hits : \A j \in hits : k >= j
             IN  Some([endpoint |-> Handlers[i],
                       path_params |-> extract_params(CompiledPath(Handlers[i].path), path).val])

find_match(path) ==
    LET hits == {i \in 1..Len(Handlers) :
                    extract_params(CompiledPath(Handlers[i].path), path).some}
    IN  IF hits = {} THEN None
        ELSE LET i == CHOOSE k \in hits : \A j \in hits : k <= j
             IN  Some([endpoint |-> Handlers[i],
                       path_params |-> extract_params(CompiledPath(Handlers[i].path), path).val])

\* PathRouter::find_match over the routes of a router, (CompiledPath, handler)
\* in the order add_route pushed them
find_match_inLast(routes, path) ==
    LET hits == {i \in 1..Len(routes) : extract_params(routes[i].compiled, path).some}
    IN  IF hits = {} THEN None
        ELSE LET i == CHOOSE k \in hits : \A j \in hits : k >= j
             IN  Some([handler |-> routes[i].handler,
                       params |-> extract_params(routes[i].compiled, path).val])

find_match_in(routes, path) ==
    LET hits == {i \in 1..Len(routes) : extract_params(routes[i].compiled, path).some}
    IN  IF hits = {} THEN None
        ELSE LET i == CHOOSE k \in hits : \A j \in hits : k <= j
             IN  Some([handler |-> routes[i].handler,
                       params |-> extract_params(routes[i].compiled, path).val])

----------------------------------------------------------------------------
(* The TCP stream of one connection.                                       *)

\* The byte streams a peer may send (the request it chose when it connected).
Requests ==
    << <<"G", " ", "/", "a", " ", "H", "\r", "\n", "\r", "\n", "b">>,
       <<"G", " ", "/", "e", " ", "H", "\r", "\n", "\r", "\n">>,
       <<"G", " ", "/", "p", " ", "H", "\r", "\n", "\r", "\n">>,
       <<"G", " ", "/", "s", " ", "H", "\r", "\n", "\r", "\n">>,
       <<"G", " ", "/", "o", " ", "H", "\r", "\n", "\r", "\n">>,
       <<"G", " ", "/", "a", "\r", "\n", "\r", "\n">>,
       <<"G", " ", "/", "x", " ", "H", "\r", "\n", "\r", "\n">>,
       <<"P", " ", "/", "a", " ", "H", "\r", "\n", "\r", "\n">> >>

RequestIds == 1..Len(Requests)

FreshSock ==
    [phase |-> "free",       \* free | open | closed (dropped by the server)
     rid |-> 0,              \* the request the peer sends
     sent |-> 0,             \* bytes of it the peer has sent so far
     inq |-> <<>>,           \* bytes received and not yet read
     consumed |-> 0,         \* bytes the server has read
     peerClosed |-> FALSE,   \* the peer has shut the connection down
     out |-> <<>>,           \* bytes the socket has accepted from the server
     io |-> "none",          \* what the last write or flush on the stream answered
     fault |-> FALSE]        \* the peer hung up, or an I/O call failed for good

\* Read::read_exact(n) on the non-blocking stream
read_exact(s, n) ==
    IF n <= Len(s.inq)
    THEN [err |-> "none", data |-> Take(s.inq, n),
          s |-> [s EXCEPT !.inq = Drop(s.inq, n), !.consumed = @ + n]]
    ELSE [err |-> IF s.peerClosed THEN "UnexpectedEof" ELSE "WouldBlock", data |-> <<>>,
          s |-> [s EXCEPT !.inq = <<>>, !.consumed = @ + Len(s.inq)]]

\* What peek may answer: the kernel's answer, or an injected failure
PeekOutcomes(s) ==
    (IF s.inq = <<>> /\ ~s.peerClosed THEN {"WouldBlock"} ELSE {"Ok"})
    \cup {"InvalidInput", "Other"}

\* What write may answer for a buffer of rem > 0 bytes
WriteOutcomes(rem) ==
    [kind : {"Ok"}, n : {0, Min(rem, WriteChunk), rem}]
    \cup [kind : {"WouldBlock", "InvalidInput", "Other"}, n : {0}]

----------------------------------------------------------------------------
(* AsyncHandler::handle_async_better, one arm per state.                   *)

Returned(state, s) == [panicked |-> FALSE, state |-> state, s |-> s]
Panicked(s) == [panicked |-> TRUE, state |-> FlushState, s |-> s]

\* Read arm, after read_http_request returned Ok(request_data)
ParseAndRoute(request_data, s, cloneOk) ==
    LET request == Split(request_data, "\n")
        first_line == Split(request[1], " ")
        method == first_line[1]
        path == first_line[2]
        endpoint_result == find_match(path)
        req_handler ==
            IF ~endpoint_result.some
            THEN AsyncRequest(path, not_found(method), <<>>)
            ELSE IF endpoint_result.val.endpoint.method # method
            THEN AsyncRequest(path, not_found(method), <<>>)
            ELSE AsyncRequest(path, endpoint_result.val.endpoint,
                              endpoint_result.val.path_params)
    IN  IF Len(first_line) < 3 THEN Panicked(s)     \* index out of bounds
        ELSE IF ~cloneOk THEN Returned(FlushState, [s EXCEPT !.fault = TRUE])
        ELSE Returned(WriteState(req_handler, 0), s)

\* One iteration of the loop of read_http_request followed, when the loop
\* ends, by the rest of the Read arm.  buffer is buffer[..total_read], buflen
\* is buffer.len().  done = FALSE: the loop goes round again.
read_http_request(state, s0, buffer, buflen, pk, cloneOk) ==
    LET s == s0
        peek_size == Min(Len(s.inq), buflen - Len(buffer))
        seen == buffer \o Take(s.inq, peek_size)
        search_end == Len(seen)
        header_end == Find(seen, CRLFCRLF)
        rd == read_exact(s, header_end)
        loop == [done |-> FALSE, res |-> Returned(state, s), buffer |-> seen,
                 buflen |-> IF search_end >= buflen THEN buflen * 2 ELSE buflen]
        exit(res) == [done |-> TRUE, res |-> res, buffer |-> <<>>, buflen |-> 0]
    IN  CASE pk \in {"WouldBlock", "InvalidInput"} ->
                exit(Returned(ReadState(state.partial), s))
          [] pk = "Other" ->
                exit(Returned(FlushState, [s EXCEPT !.fault = TRUE]))
          [] pk = "Ok" /\ header_end >= 0 ->
                CASE rd.err = "none" -> exit(ParseAndRoute(rd.data, rd.s, cloneOk))
                  [] rd.err = "WouldBlock" -> exit(Returned(ReadState(state.partial), rd.s))
                  [] OTHER -> exit(Returned(FlushState, rd.s))
          [] pk = "Ok" /\ header_end < 0 /\ search_end >= MAX_REQUEST_SIZE ->
                exit(Returned(FlushState, s))            \* InvalidData
          [] OTHER -> loop

\* CatchUnwind::poll of the handler's future, then the unwrap_or_else of the
\* Write arm: a Result<Response, String>
CatchUnwindNoCatch(outcome) ==
    IF outcome.kind = "Panic" THEN [kind |-> "Unwind"] ELSE outcome

CatchUnwind(outcome) ==
    CASE outcome.kind = "Panic" /\ outcome.payload \in {"&str", "String"} ->
            [kind |-> "Ok",
             res |-> Response(500, <<"I", "n", "t", "e", "r", "n", "a", "l", " ", "s", "e",
                                     "r", "v", "e", "r", " ", "e", "r", "r", "o", "r",
                                     "\n", ":">> \o outcome.msg)]
      [] outcome.kind = "Panic" ->
            [kind |-> "Ok",
             res |-> Response(500, <<"C", "a", "n", "n", "o", "t", " ", "i", "n", "t", "e",
                                     "r", "p", "r", "e", "t", " ", "e", "r", "r", "o", "r",
                                     ".">>)]
      [] OTHER -> outcome

write_all_bytesNoOffset(s0, data, offset, wr) ==
    IF offset >= Len(data) THEN [result |-> "Complete", n |-> offset, s |-> s0]
    ELSE LET s == [s0 EXCEPT !.io = wr.kind] IN
         CASE wr.kind = "Ok" /\ wr.n = 0 ->
                [result |-> "ConnectionClosed", n |-> offset, s |-> [s EXCEPT !.fault = TRUE]]
           [] wr.kind = "Ok" ->
                [result |-> IF offset + wr.n >= Len(data) THEN "Complete" ELSE "Partial",
                 n |-> offset + wr.n,
                 s |-> [s EXCEPT !.out = @ \o SubSeq(data, 1, wr.n)]]
           [] wr.kind \in {"WouldBlock", "InvalidInput"} ->
                [result |-> "Partial", n |-> offset, s |-> s]
           [] OTHER ->
                [result |-> "ConnectionClosed", n |-> offset, s |-> [s EXCEPT !.fault = TRUE]]

write_all_bytesBlockCloses(s0, data, offset, wr) ==
    IF offset >= Len(data) THEN [result |-> "Complete", n |-> offset, s |-> s0]
    ELSE LET s == [s0 EXCEPT !.io = wr.kind] IN
         CASE wr.kind = "Ok" /\ wr.n = 0 ->
                [result |-> "ConnectionClosed", n |-> offset, s |-> [s EXCEPT !.fault = TRUE]]
           [] wr.kind = "Ok" ->
                [result |-> IF offset + wr.n >= Len(data) THEN "Complete" ELSE "Partial",
                 n |-> offset + wr.n,
                 s |-> [s EXCEPT !.out = @ \o SubSeq(data, offset + 1, offset + wr.n)]]
           [] OTHER ->
                [result |-> "ConnectionClosed", n |-> offset, s |-> [s EXCEPT !.fault = TRUE]]

write_all_bytes(s0, data, offset, wr) ==
    IF offset >= Len(data) THEN [result |-> "Complete", n |-> offset, s |-> s0]
    ELSE LET s == [s0 EXCEPT !.io = wr.kind] IN
         CASE wr.kind = "Ok" /\ wr.n = 0 ->
                [result |-> "ConnectionClosed", n |-> offset, s |-> [s EXCEPT !.fault = TRUE]]
           [] wr.kind = "Ok" ->
                [result |-> IF offset + wr.n >= Len(data) THEN "Complete" ELSE "Partial",
                 n |-> offset + wr.n,
                 s |-> [s EXCEPT !.out = @ \o SubSeq(data, offset + 1, offset + wr.n)]]
           [] wr.kind \in {"WouldBlock", "InvalidInput"} ->
                [result |-> "Partial", n |-> offset, s |-> s]
           [] OTHER ->
                [result |-> "ConnectionClosed", n |-> offset, s |-> [s EXCEPT !.fault = TRUE]]

\* The serialized response of a Write step, when the step gets as far as writing
ResponseBytes(req) ==
    LET res == CatchUnwind(HandlerFn(req.handler.func, req))
    IN  IF res.kind = "Ok" THEN Some(Serialize(res.res)) ELSE None

\* Write arm
handle_write(state, s, wr) ==
    LET bytes == ResponseBytes(state.req)
        w == write_all_bytes(s, bytes.val, state.written, wr)
    IN  IF ~bytes.some THEN Panicked(s)      \* Result::unwrap on Err(msg), or an unwinding panic
        ELSE CASE w.result = "Complete" -> Returned(FlushState, w.s)
               [] w.result = "Partial" -> Returned(WriteState(state.req, w.n), w.s)
               [] OTHER -> Returned(FlushState, w.s)

\* Flush arm
handle_flushNoAbsorb(state, s, flushOk) ==
    IF flushOk THEN Returned(FlushState, [s EXCEPT !.io = "Ok"])
    ELSE Returned(ReadState(<<>>), [s EXCEPT !.io = "Other", !.fault = TRUE])

handle_flush(state, s, flushOk) ==
    Returned(FlushState, [s EXCEPT !.io = IF flushOk THEN "Ok" ELSE "Other",
                                   !.fault = @ \/ ~flushOk])

----------------------------------------------------------------------------
(* Tasks, the table and the initial state.                                 *)

NoEntry == [kind |-> "NoEntry", partial |-> <<>>, req |-> NoRequest, written |-> 0]

\* Task::new of the future that runs one step for fd; by = "reactor" for the
\* closure start_blocking queues, "direct" for a caller that awaits the step's
\* result (queue_with_result)
Task(fd, by, state) ==
    [fd |-> fd, by |-> by, state |-> state, buffer |-> <<>>, buflen |-> INITIAL_BUFFER_SIZE]

Idle == [fd |-> 0, by |-> "none", state |-> NoEntry, buffer |-> <<>>, buflen |-> 0]

\* A future its user has not queued yet.  Once queued: submitted is what
\* queue returned, worker the index of the Sender the Task keeps, future the
\* slot Task::future ("Some", "None", or "Polling" while process_task has
\* taken the future out and polls it); the rest records what happened to it.
NoTask ==
    [submitted |-> "no", worker |-> 0, future |-> "None",
     polledBy |-> {},        \* the workers that polled it
     done |-> FALSE,         \* a poll returned Ready
     wakes |-> 0,            \* calls of wake on its wakers
     woken |-> FALSE,        \* woken since its last poll began, the future not done
     wakeFailed |-> FALSE,   \* a wake could not send the task (and panicked)
     with_result |-> FALSE,  \* queued with queue_with_result
     output |-> 0,           \* what the future queued with a result returns
     handle |-> None,        \* the slot of the ResultHandle made for it
     got |-> None,           \* what the user's get on that handle returned
     panicked |-> "no"]      \* a poll of it unwound, "before" or "after" poison_all was called

\* The thread that calls poison_all: before the call, in Worker::join of the
\* w-th worker, after poison_all returned, or unwound by a panic
NotJoining == [at |-> "idle", w |-> 0]
Joining(w) == [at |-> "join", w |-> w]
PoisonReturned == [at |-> "returned", w |-> 0]
PoisonPanicked(w) == [at |-> "panicked", w |-> w]

\* What body() returned: Ok(data), Err(Error { status_code }), or nothing yet
NoResult == [kind |-> "none", data |-> <<>>, status_code |-> 0]
BodyOk(data) == [kind |-> "Ok", data |-> data, status_code |-> 0]
BodyErr(status_code) == [kind |-> "Err", data |-> <<>>, status_code |-> status_code]

\* The body reader of a connection's request: headers.content_length(), the
\* calls of body() so far, where the call in progress is ("delimiter" and
\* "content" are its two read loops), the bytes of buf the reads so far have
\* left it with, and what the last call returned
NoBody == [content_length |-> None,     \* Headers::content_length()
           transfer_encoding |-> None,  \* Headers::get("transfer-encoding")
           calls |-> 0, at |-> "none", kept |-> 0,
           ret |-> NoResult,
           would_block |-> FALSE]  \* the last read of the call in progress answered WouldBlock

\* A thread that has not called the handle; nothing stored or taken yet
NoCall == [op |-> "none", at |-> "idle", val |-> 0, ret |-> None, ready |-> FALSE,
           waited |-> FALSE]
NoHistory == [calls |-> 0, stored |-> <<>>, taken |-> <<>>,
              sets |-> 0, gets |-> 0]    \* calls of set and of get among the calls

\* PathRouter::new, and nothing asked of it yet; of the calls made on the
\* router and on compiled patterns the last one is kept with what it returned
NoRouter == [routes |-> <<>>, op |-> "none", pattern |-> <<>>, path |-> <<>>,
             found |-> None, matched |-> FALSE, params |-> None]

Init ==
    /\ connections = [fd \in Fds |-> NoEntry]
    /\ sock = [fd \in Fds |-> FreshSock]
    /\ chan = [w \in WorkerIds |-> <<>>]
    /\ alive = [w \in WorkerIds |-> TRUE]
    /\ next_worker = 0
    /\ running = [w \in WorkerIds |-> Idle]
    /\ held = [fd \in Fds |-> NoEntry]
    /\ accepts = 0
    /\ reactor = "polling"
    /\ shutdown_requested = FALSE
    /\ tasks = [t \in TaskIds |-> NoTask]
    /\ stopped = [w \in WorkerIds |-> FALSE]
    /\ poisoned = FALSE
    /\ joining = NotJoining
    /\ value = None
    /\ thr = [th \in Threads |-> NoCall]
    /\ hist = NoHistory
    /\ body_reader = [fd \in Fds |-> NoBody]
    /\ router = NoRouter

\* The tasks that exist: <<w, 0>> is the one worker w is in the read loop of,
\* <<w, i>> the i-th message of w's channel; those that hold fd's stream
Slots == UNION {{<<w, i>> : i \in 0..Len(chan[w])} : w \in WorkerIds}
TaskAt(p) == IF p[2] = 0 THEN running[p[1]] ELSE chan[p[1]][p[2]]
HoldersOf(fd) == {p \in Slots : TaskAt(p).fd = fd}
InTask(fd) == HoldersOf(fd) # {}
TaskOf(fd) == TaskAt(CHOOSE p \in HoldersOf(fd) : TRUE)

\* The state of fd's connection, wherever it is kept
ConnStateOf(fd) ==
    IF connections[fd] # NoEntry THEN connections[fd]
    ELSE IF held[fd] # NoEntry THEN held[fd]
    ELSE IF InTask(fd) THEN TaskOf(fd).state
    ELSE NoEntry

\* drop(conn) for every fd of the set: the descriptor is closed and what was
\* received and not read is discarded; what the peer was sent stays sent
Dropped(socks, fds) ==
    [fd \in Fds |->
        IF fd \in fds
        THEN [FreshSock EXCEPT !.phase = "closed", !.rid = socks[fd].rid,
                               !.out = socks[fd].out, !.fault = socks[fd].fault]
        ELSE socks[fd]]

----------------------------------------------------------------------------
(* Workers: get_next_sender, send_task, the receive loop.                  *)

\* Workers::get_next_sender
get_next_sender == (next_worker + 1) % NumWorkers

\* Sender::send fails once the worker's Receiver is gone
SendOk(idx) == alive[idx]

\* Sender::send on a channel whose Receiver lives: the message goes behind
\* those already queued
sendFront(q, msg) == <<msg>> \o q
send(q, msg) == Append(q, msg)

\* Worker::new, the receive loop: the task a worker's next poll is of, i.e.
\* the one whose read loop it is in, else the next message recv() yields
Busy(w) == alive[w] /\ (running[w] # Idle \/ chan[w] # <<>>)
Current(w) == IF running[w] # Idle THEN running[w] ELSE Head(chan[w])
Received(w) == IF running[w] # Idle THEN chan[w] ELSE Tail(chan[w])

----------------------------------------------------------------------------
(* The reactor loop of start_blocking.                                     *)

\* listener.accept(): Ok((connection, _)); the kernel hands out the lowest
\* descriptor that is not open
Accept(fd, rid) ==
    /\ reactor = "polling"
    /\ accepts < MaxAccepts
    /\ sock[fd].phase \in {"free", "closed"}
    /\ \A g \in Fds : g < fd => sock[g].phase = "open"
    /\ sock' = [sock EXCEPT ![fd] = [FreshSock EXCEPT !.phase = "open", !.rid = rid]]
    /\ connections' = [connections EXCEPT ![fd] = ReadState(<<>>)]
    /\ accepts' = accepts + 1
    /\ UNCHANGED <<chan, alive, next_worker, running, held, otherVars>>

\* ConnectionManager::take, the remove(&fd) of the reactor
takeNoRemove(conns, fd) == conns
take(conns, fd) == [conns EXCEPT ![fd] = NoEntry]

\* A readiness event for a connection fd: remove the entry and queue the task
Dispatch(fd) ==
    /\ reactor = "polling"
    /\ connections[fd] # NoEntry
    /\ connections' = take(connections, fd)
    /\ next_worker' = get_next_sender
    /\ IF SendOk(next_worker)
       THEN /\ chan' = [chan EXCEPT ![next_worker] =
                            Append(@, Task(fd, "reactor", connections[fd]))]
            /\ sock' = sock
       ELSE /\ chan' = chan           \* "Failed to queue async job": the task is dropped
            /\ sock' = Dropped(sock, {fd})
    /\ UNCHANGED <<alive, running, held, accepts, otherVars>>

\* listener.accept(): Err(e), e not WouldBlock: panic!("failed to accept")
\* unwinds start_blocking
AcceptFails ==
    /\ reactor = "polling"
    /\ reactor' = "panicked"
    /\ UNCHANGED <<connections, sock, chan, alive, next_worker, running, held, accepts,
                   shutdown_requested, poolVars, handleVars, body_reader, router>>

\* listener.accept(): Ok, then set_nonblocking or epoll::ctl fails: the expect
\* panics, and the unwinding drops the accepted stream
RegisterFails(fd, rid) ==
    /\ reactor = "polling"
    /\ accepts < MaxAccepts
    /\ sock[fd].phase \in {"free", "closed"}
    /\ \A g \in Fds : g < fd => sock[g].phase = "open"
    /\ sock' = [sock EXCEPT ![fd] = [FreshSock EXCEPT !.phase = "closed", !.rid = rid,
                                                      !.fault = TRUE]]
    /\ accepts' = accepts + 1
    /\ reactor' = "panicked"
    /\ UNCHANGED <<connections, chan, alive, next_worker, running, held,
                   shutdown_requested, poolVars, handleVars, body_reader, router>>

\* A shutdown of the server is asked for while start_blocking runs
RequestShutdown ==
    /\ ~shutdown_requested
    /\ shutdown_requested' = TRUE
    /\ UNCHANGED <<connections, sock, chan, alive, next_worker, running, held, accepts,
                   reactor, poolVars, handleVars, body_reader, router>>

----------------------------------------------------------------------------
(* A direct caller of the step, as the unit tests of async_handler.rs.     *)

Open(fd, rid) ==
    /\ accepts < MaxAccepts
    /\ sock[fd].phase = "free"
    /\ sock' = [sock EXCEPT ![fd] = [FreshSock EXCEPT !.phase = "open", !.rid = rid]]
    /\ held' = [held EXCEPT ![fd] = ReadState(<<>>)]
    /\ accepts' = accepts + 1
    /\ UNCHANGED <<connections, chan, alive, next_worker, running, otherVars>>

\* A caller that starts from a Write state it built for a registered handler,
\* the header block of the request already read
OpenWrite(fd, i) ==
    /\ accepts < MaxAccepts
    /\ sock[fd].phase = "free"
    /\ sock' = [sock EXCEPT ![fd] =
                    [FreshSock EXCEPT !.phase = "open", !.rid = i,
                                      !.sent = Len(Requests[i]),
                                      !.consumed = Find(Requests[i], CRLFCRLF),
                                      !.inq = Drop(Requests[i], Find(Requests[i], CRLFCRLF))]]
    /\ held' = [held EXCEPT ![fd] =
                    WriteState(AsyncRequest(Handlers[i].path, Handlers[i], <<>>), 0)]
    /\ accepts' = accepts + 1
    /\ UNCHANGED <<connections, chan, alive, next_worker, running, otherVars>>

\* workers.queue_with_result(handle_async_better(conn, &state, ..))
Call(fd) ==
    /\ held[fd] # NoEntry
    /\ held' = [held EXCEPT ![fd] = NoEntry]
    /\ next_worker' = get_next_sender
    /\ IF SendOk(next_worker)
       THEN /\ chan' = [chan EXCEPT ![next_worker] = Append(@, Task(fd, "direct", held[fd]))]
            /\ sock' = sock
       ELSE /\ chan' = chan
            /\ sock' = Dropped(sock, {fd})
    /\ UNCHANGED <<connections, alive, running, accepts, otherVars>>

\* The header block of a request: request line and blank line
HeaderBlock(method, path) == method \o <<" ">> \o path \o <<" ", "H">> \o CRLFCRLF

\* The request of a peer that posts a body: "P /b H", the blank line, the
\* body, and a byte that belongs to whatever the peer sends next
BodyBytes == [i \in 1..(MaxBody + 1) |-> Digit(i)]
BodyStream == HeaderBlock(<<"P">>, <<"/", "b">>) \o BodyBytes
header_end == Find(BodyStream, CRLFCRLF)

\* AsyncHandler::new("POST", "/echo", echo_handler)
EchoHandler == AsyncHandler(<<"P">>, <<"/", "b">>, "echo_handler")

\* A caller that starts from the Write state of a request to the echo
\* handler with Content-Length n: the Read step has found the blank line and
\* read the header block; the blank line is the next thing in the stream
OpenBody(fd, n) ==
    /\ accepts < MaxAccepts
    /\ sock[fd].phase = "free"
    /\ sock' = [sock EXCEPT ![fd] =
                    [FreshSock EXCEPT !.phase = "open",
                                      !.sent = header_end + Len(CRLFCRLF),
                                      !.consumed = header_end,
                                      !.inq = CRLFCRLF]]
    /\ held' = [held EXCEPT ![fd] = WriteState(AsyncRequest(EchoHandler.path, EchoHandler, <<>>), 0)]
    /\ body_reader' = [body_reader EXCEPT ![fd] = [NoBody EXCEPT !.content_length = Some(n)]]
    /\ accepts' = accepts + 1
    /\ UNCHANGED <<connections, chan, alive, next_worker, running,
                   reactor, shutdown_requested, poolVars, handleVars, router>>

\* The peer's next k bytes arrive
PeerSendBody(fd, k) ==
    /\ sock[fd].phase = "open" /\ ~sock[fd].peerClosed
    /\ body_reader[fd].content_length.some
    /\ k >= 1 /\ sock[fd].sent + k <= Len(BodyStream)
    /\ sock' = [sock EXCEPT ![fd].inq =
                    @ \o SubSeq(BodyStream, sock[fd].sent + 1, sock[fd].sent + k),
                            ![fd].sent = @ + k]
    /\ UNCHANGED <<connections, chan, alive, next_worker, running, held, accepts,
                   otherVars>>

----------------------------------------------------------------------------
(* process_task: the poll of a task's future.                              *)

\* The end of a poll in which the step returned or panicked.  A panic unwinds
\* the worker thread: the stream of the task and the messages still in the
\* worker's channel are dropped with it.
CompleteInsertsFlush(w, res) ==
    LET t == Current(w)
        rest == Received(w)
    IN  /\ running' = [running EXCEPT ![w] = Idle]
        /\ UNCHANGED <<next_worker, accepts, otherVars>>
        /\ IF res.panicked
           THEN /\ alive' = [alive EXCEPT ![w] = FALSE]
                /\ chan' = [chan EXCEPT ![w] = <<>>]
                /\ sock' = Dropped([sock EXCEPT ![t.fd] = res.s],
                                   {t.fd} \cup {rest[i].fd : i \in 1..Len(rest)})
                /\ UNCHANGED <<connections, held>>
           ELSE /\ alive' = alive
                /\ chan' = [chan EXCEPT ![w] = rest]
                /\ IF t.by = "direct"
                   THEN /\ held' = [held EXCEPT ![t.fd] = res.state]
                        /\ sock' = [sock EXCEPT ![t.fd] = res.s]
                        /\ UNCHANGED connections
                   ELSE /\ UNCHANGED held
                        /\ IF res.state # NoEntry
                           THEN /\ connections' = [connections EXCEPT ![t.fd] = res.state]
                                /\ sock' = [sock EXCEPT ![t.fd] = res.s]
                           ELSE /\ UNCHANGED connections
                                /\ sock' = Dropped([sock EXCEPT ![t.fd] = res.s], {t.fd})

Complete(w, res) ==
    LET t == Current(w)
        rest == Received(w)
    IN  /\ running' = [running EXCEPT ![w] = Idle]
        /\ UNCHANGED <<next_worker, accepts, otherVars>>
        /\ IF res.panicked
           THEN /\ alive' = [alive EXCEPT ![w] = FALSE]
                /\ chan' = [chan EXCEPT ![w] = <<>>]
                /\ sock' = Dropped([sock EXCEPT ![t.fd] = res.s],
                                   {t.fd} \cup {rest[i].fd : i \in 1..Len(rest)})
                /\ UNCHANGED <<connections, held>>
           ELSE /\ alive' = alive
                /\ chan' = [chan EXCEPT ![w] = rest]
                /\ IF t.by = "direct"
                   THEN /\ held' = [held EXCEPT ![t.fd] = res.state]
                        /\ sock' = [sock EXCEPT ![t.fd] = res.s]
                        /\ UNCHANGED connections
                   ELSE /\ UNCHANGED held
                        /\ IF res.state # FlushState
                           THEN /\ connections' = [connections EXCEPT ![t.fd] = res.state]
                                /\ sock' = [sock EXCEPT ![t.fd] = res.s]
                           ELSE /\ UNCHANGED connections
                                /\ sock' = Dropped([sock EXCEPT ![t.fd] = res.s], {t.fd})

\* Read arm: one peek of read_http_request
StepRead(w) ==
    /\ Busy(w) /\ Current(w).state.kind = "Read"
    /\ LET t == Current(w)
       IN  \E pk \in PeekOutcomes(sock[t.fd]), cloneOk \in BOOLEAN :
             LET r == read_http_request(t.state, sock[t.fd], t.buffer, t.buflen, pk, cloneOk)
             IN  /\ cloneOk \/ pk = "Ok"
                 /\ IF r.done
                    THEN Complete(w, r.res)
                    ELSE /\ cloneOk
                         /\ running' = [running EXCEPT ![w] =
                                           [t EXCEPT !.buffer = r.buffer, !.buflen = r.buflen]]
                         /\ chan' = [chan EXCEPT ![w] = Received(w)]
                         /\ UNCHANGED <<connections, sock, alive, next_worker, held,
                                        accepts, otherVars>>

\* Write arm
StepWrite(w) ==
    /\ Busy(w) /\ Current(w).state.kind = "Write"
    /\ LET t == Current(w)
           bytes == ResponseBytes(t.state.req)
           rem == IF bytes.some THEN Len(bytes.val) - t.state.written ELSE 0
       IN  \E wr \in WriteOutcomes(rem) :
              Complete(w, handle_write(t.state, sock[t.fd], wr))

----------------------------------------------------------------------------
(* AsyncRequest::body over Transfer-Encoding: chunked.                     *)

UpperCase == <<"A", "B", "C", "D", "E", "F", "G", "H", "I", "J", "K", "L", "M",
               "N", "O", "P", "Q", "R", "S", "T", "U", "V", "W", "X", "Y", "Z">>
LowerCase == <<"a", "b", "c", "d", "e", "f", "g", "h", "i", "j", "k", "l", "m",
               "n", "o", "p", "q", "r", "s", "t", "u", "v", "w", "x", "y", "z">>

\* str::to_lowercase
to_lowercase(str) ==
    [i \in 1..Len(str) |->
        IF \E k \in 1..Len(UpperCase) : UpperCase[k] = str[i]
        THEN LowerCase[CHOOSE k \in 1..Len(UpperCase) : UpperCase[k] = str[i]]
        ELSE str[i]]

\* headers.get("transfer-encoding").map(|te| te.to_lowercase().contains("chunked"))
\*     .unwrap_or(false)
is_chunked(te) ==
    te.some /\ Find(to_lowercase(te.val), <<"c", "h", "u", "n", "k", "e", "d">>) # -1

WhiteSpace == {" ", "\t", "\r", "\n"}

\* str::trim
RECURSIVE trim(_)
trim(str) ==
    IF str = <<>> THEN <<>>
    ELSE IF Head(str) \in WhiteSpace THEN trim(Tail(str))
    ELSE IF str[Len(str)] \in WhiteSpace THEN trim(SubSeq(str, 1, Len(str) - 1))
    ELSE str

HexDigits == <<"0", "1", "2", "3", "4", "5", "6", "7", "8", "9",
               "a", "b", "c", "d", "e", "f">>

\* char::to_digit(16): letters count in either case
to_digit(c) ==
    LET hits == {d \in 1..Len(HexDigits) : HexDigits[d] = to_lowercase(<<c>>)[1]}
    IN  IF hits = {} THEN None ELSE Some((CHOOSE d \in hits : TRUE) - 1)

\* usize::from_str_radix(src, 16): an optional "+" and then one digit or
\* more; Some(n), or None for the Err (no input here reaches the overflow)
RECURSIVE radix16(_, _)
radix16(digits, acc) ==
    IF digits = <<>> THEN Some(acc)
    ELSE IF ~to_digit(Head(digits)).some THEN None
    ELSE radix16(Tail(digits), acc * 16 + to_digit(Head(digits)).val)

from_str_radix16(src) ==
    LET digits == IF src # <<>> /\ Head(src) = "+" THEN Tail(src) ELSE src
    IN  IF digits = <<>> THEN None ELSE radix16(digits, 0)

\* read_line: bytes are read one at a time up to "\r\n", which is left out
RECURSIVE read_line_from(_, _, _)
read_line_from(s, line, prev_byte) ==
    LET rd == read_exact(s, 1)
    IN  IF rd.err # "none" THEN [err |-> rd.err, line |-> line, s |-> rd.s]
        ELSE IF prev_byte = "\r" /\ rd.data[1] = "\n"
        THEN [err |-> "none", line |-> SubSeq(line, 1, Len(line) - 1), s |-> rd.s]
        ELSE read_line_from(rd.s, Append(line, rd.data[1]), rd.data[1])

read_line(s) == read_line_from(s, <<>>, "")

\* What a read of read_chunked_body that did not succeed makes of the call:
\* on WouldBlock the loop around the read goes on, another error ends the
\* call with 400
ChunkedFails(err, s) ==
    [kind |-> IF err = "WouldBlock" THEN "WouldBlock" ELSE "Returned",
     ret |-> BodyErr(400), s |-> s]

\* read_chunked_body, from one round of its loop on
RECURSIVE read_chunked_from(_, _)
read_chunked_from(s, body_data) ==
    LET chunk_size_line == read_line(s)
        chunk_size == trim(Head(Split(trim(chunk_size_line.line), ";")))
        size == from_str_radix16(chunk_size)
        last == read_line(chunk_size_line.s)
        chunk == read_exact(chunk_size_line.s, size.val)
        crlf == read_exact(chunk.s, Len(CRLF))
    IN  IF chunk_size_line.err # "none"
        THEN ChunkedFails(chunk_size_line.err, chunk_size_line.s)
        ELSE IF ~size.some
        THEN [kind |-> "Returned", ret |-> BodyErr(400), s |-> chunk_size_line.s]
        ELSE IF size.val = 0
        THEN IF last.err # "none" THEN ChunkedFails(last.err, last.s)
             ELSE [kind |-> "Returned", ret |-> BodyOk(body_data), s |-> last.s]
        ELSE IF chunk.err # "none" THEN ChunkedFails(chunk.err, chunk.s)
        ELSE IF crlf.err # "none" THEN ChunkedFails(crlf.err, crlf.s)
        ELSE read_chunked_from(crlf.s, body_data \o chunk.data)

read_chunked_body(s) == read_chunked_from(s, <<>>)

\* echo_handler of tests/bug_tests.rs, given what req.body().await returned:
\* the body is sent back, an error becomes Err(e.to_string()), of which the
\* model keeps the status code
echo_handler(ret) ==
    IF ret.kind = "Ok" THEN [kind |-> "Ok", res |-> Response(200, ret.data)]
    ELSE [kind |-> "Err", msg |-> Decimal(ret.status_code)]

\* Write arm of a request to the echo handler, after its future completed
handle_write_echo(state, s, wr, ret) ==
    LET res == CatchUnwind(echo_handler(ret))
        bytes == IF res.kind = "Ok" THEN Some(Serialize(res.res)) ELSE None
        w == write_all_bytes(s, bytes.val, state.written, wr)
    IN  IF ~bytes.some THEN Panicked(s)      \* Result::unwrap on Err(msg)
        ELSE CASE w.result = "Complete" -> Returned(FlushState, w.s)
               [] w.result = "Partial" -> Returned(WriteState(state.req, w.n), w.s)
               [] OTHER -> Returned(FlushState, w.s)

\* Write arm, req.handler.func.call(req.clone()) of the echo handler: the
\* handler's future is polled and calls req.body()
BodyCall(w) ==
    /\ Busy(w) /\ running[w] = Idle
    /\ Current(w).state.kind = "Write"
    /\ Current(w).state.req.handler.func = "echo_handler"
    /\ body_reader[Current(w).fd].calls < MaxBodyCalls
    /\ running' = [running EXCEPT ![w] = Current(w)]
    /\ chan' = [chan EXCEPT ![w] = Received(w)]
    /\ body_reader' = [body_reader EXCEPT ![Current(w).fd] =
                    [@ EXCEPT !.calls = @ + 1, !.at = "delimiter", !.kept = 0,
                              !.ret = NoResult, !.would_block = FALSE]]
    /\ UNCHANGED <<connections, sock, alive, next_worker, held, accepts,
                   reactor, shutdown_requested, poolVars, handleVars, router>>

\* body(), one round of its first loop: read_exact of the four bytes of the
\* blank line into a buffer that is filled from its start
BodyDelimiter(w) ==
    /\ alive[w] /\ running[w] # Idle
    /\ body_reader[running[w].fd].at = "delimiter"
    /\ LET fd == running[w].fd
           rd == read_exact(sock[fd], Len(CRLFCRLF))
       IN  /\ sock' = [sock EXCEPT ![fd] = rd.s]
           /\ body_reader' = [body_reader EXCEPT ![fd] =
                 CASE rd.err = "none" /\ body_reader[fd].content_length.some ->
                        [@ EXCEPT !.at = "content", !.would_block = FALSE]
                   [] rd.err = "none" /\ is_chunked(body_reader[fd].transfer_encoding) ->
                        [@ EXCEPT !.at = "chunked", !.would_block = FALSE]
                   [] rd.err = "none" ->
                        [@ EXCEPT !.at = "returned", !.ret = BodyErr(411),
                                  !.would_block = FALSE]
                   [] rd.err = "WouldBlock" -> [@ EXCEPT !.would_block = TRUE]
                   [] OTHER -> [@ EXCEPT !.at = "returned", !.ret = BodyErr(400),
                                         !.would_block = FALSE]]
    /\ UNCHANGED <<connections, chan, alive, next_worker, running, held, accepts,
                   reactor, shutdown_requested, poolVars, handleVars, router>>

\* body(), one round of its second loop: read_exact of content_len bytes
\* into a buffer that is filled from its start
BodyContent(w) ==
    /\ alive[w] /\ running[w] # Idle
    /\ body_reader[running[w].fd].at = "content"
    /\ LET fd == running[w].fd
           rd == read_exact(sock[fd], body_reader[fd].content_length.val)
       IN  /\ sock' = [sock EXCEPT ![fd] = rd.s]
           /\ body_reader' = [body_reader EXCEPT ![fd] =
                 CASE rd.err = "none" ->
                        [@ EXCEPT !.at = "returned", !.kept = Len(rd.data),
                                  !.ret = BodyOk(rd.data), !.would_block = FALSE]
                   [] rd.err = "WouldBlock" -> [@ EXCEPT !.kept = 0, !.would_block = TRUE]
                   [] OTHER -> [@ EXCEPT !.at = "returned", !.ret = BodyErr(400),
                                         !.would_block = FALSE]]
    /\ UNCHANGED <<connections, chan, alive, next_worker, running, held, accepts,
                   reactor, shutdown_requested, poolVars, handleVars, router>>

\* body() of a chunked request, from the blank line on: read_chunked_body in
\* a run where no read answers WouldBlock (what it asks for has arrived, or
\* the peer has finished sending)
BodyChunked(w) ==
    /\ alive[w] /\ running[w] # Idle
    /\ body_reader[running[w].fd].at = "chunked"
    /\ LET fd == running[w].fd
           rd == read_chunked_body(sock[fd])
       IN  /\ rd.kind = "Returned"
           /\ sock' = [sock EXCEPT ![fd] = rd.s]
           /\ body_reader' = [body_reader EXCEPT ![fd] =
                 [@ EXCEPT !.at = "returned", !.ret = rd.ret, !.would_block = FALSE]]
    /\ UNCHANGED <<connections, chan, alive, next_worker, running, held, accepts,
                   reactor, shutdown_requested, poolVars, handleVars, router>>

\* Write arm of a request to the echo handler, from the return of body()
StepWriteEcho(w) ==
    /\ alive[w] /\ running[w] # Idle
    /\ running[w].state.kind = "Write"
    /\ body_reader[running[w].fd].at = "returned"
    /\ LET t == running[w]
           res == CatchUnwind(echo_handler(body_reader[t.fd].ret))
           rem == IF res.kind = "Ok" THEN Len(Serialize(res.res)) - t.state.written ELSE 0
       IN  \E wr \in WriteOutcomes(rem) :
              Complete(w, handle_write_echo(t.state, sock[t.fd], wr, body_reader[t.fd].ret))

\* Flush arm
StepFlush(w) ==
    /\ Busy(w) /\ Current(w).state.kind = "Flush"
    /\ \E flushOk \in BOOLEAN :
          Complete(w, handle_flush(Current(w).state, sock[Current(w).fd], flushOk))

----------------------------------------------------------------------------
(* The peer.                                                               *)

PeerSend(fd, n) ==
    /\ sock[fd].phase = "open" /\ ~sock[fd].peerClosed
    /\ n >= 1 /\ sock[fd].sent + n <= Len(Requests[sock[fd].rid])
    /\ sock' = [sock EXCEPT ![fd].inq =
                    @ \o SubSeq(Requests[sock[fd].rid], sock[fd].sent + 1, sock[fd].sent + n),
                            ![fd].sent = @ + n]
    /\ UNCHANGED <<connections, chan, alive, next_worker, running, held, accepts,
                   otherVars>>

PeerClose(fd) ==
    /\ sock[fd].phase = "open" /\ ~sock[fd].peerClosed
    /\ sock' = [sock EXCEPT ![fd].peerClosed = TRUE, ![fd].fault = TRUE]
    /\ UNCHANGED <<connections, chan, alive, next_worker, running, held, accepts,
                   otherVars>>

----------------------------------------------------------------------------
(* ResultHandle: one pass of an operation over the slot, the mutex held.   *)
(* wait: the slot is left as it is and the caller waits on is_set;         *)
(* notify: is_set.notify_one() is called; ret: what the operation returns. *)

HandleStep(slot, wait, notify, ret) ==
    [slot |-> slot, wait |-> wait, notify |-> notify, ret |-> ret]

\* ResultHandle::set(val)
setDrops(slot, val) == HandleStep(slot, FALSE, TRUE, None)
setOverwrites(slot, val) == HandleStep(Some(val), FALSE, TRUE, None)
set(slot, val) ==
    IF slot.some THEN HandleStep(slot, TRUE, FALSE, None)
    ELSE HandleStep(Some(val), FALSE, TRUE, None)

\* ResultHandle::get()
getKeeps(slot) ==
    IF ~slot.some THEN HandleStep(slot, TRUE, FALSE, None)
    ELSE HandleStep(slot, FALSE, TRUE, slot)
get(slot) ==
    IF ~slot.some THEN HandleStep(slot, TRUE, FALSE, None)
    ELSE HandleStep(None, FALSE, TRUE, slot)

\* ResultHandle::try_get()
try_getWaits(slot) ==
    IF ~slot.some THEN HandleStep(slot, TRUE, FALSE, None)
    ELSE HandleStep(None, FALSE, TRUE, slot)
try_get(slot) == HandleStep(None, FALSE, slot.some, slot)

\* ResultHandle::is_ready()
is_ready(slot) == HandleStep(slot, FALSE, FALSE, slot.some)

\* The operations of a ResultHandle
HandleOps == {"set", "get", "try_get", "is_ready"}

\* One pass of operation op, from the lock to the wait or to the return
Pass(op, s, val) ==
    CASE op = "set" -> set(s, val)
      [] op = "get" -> get(s)
      [] op = "try_get" -> try_get(s)
      [] OTHER -> is_ready(s)

\* The threads in is_set.wait(data_lock) that no notification has reached
Waiters == {th \in Threads : thr[th].at = "waiting"}

\* Thread th runs a pass of its call with the mutex held.  The pass ends in
\* is_set.wait, which releases the mutex, or in the return of the call;
\* is_set.notify_one() on the way wakes one of the threads that wait (target),
\* or nobody when none waits.
RunPass(th, call, target) ==
    LET r == Pass(call.op, value, call.val)
    IN  /\ target \in (IF r.notify /\ Waiters \ {th} # {} THEN Waiters \ {th} ELSE {0})
        /\ value' = r.slot
        /\ thr' = [x \in Threads |->
                     IF x = th
                     THEN [call EXCEPT !.at = IF r.wait THEN "waiting" ELSE "returned",
                                       !.ret = IF call.op = "is_ready" THEN None ELSE r.ret,
                                       !.ready = IF call.op = "is_ready" THEN r.ret ELSE FALSE,
                                       !.waited = @ \/ r.wait]
                     ELSE IF x = target THEN [thr[x] EXCEPT !.at = "notified"]
                     ELSE thr[x]]
        /\ hist' = [hist EXCEPT
                       !.calls = IF thr[th].at \in {"idle", "returned"} THEN @ + 1 ELSE @,
                       !.sets = IF thr[th].at \in {"idle", "returned"} /\ call.op = "set"
                                THEN @ + 1 ELSE @,
                       !.gets = IF thr[th].at \in {"idle", "returned"} /\ call.op = "get"
                                THEN @ + 1 ELSE @,
                       !.stored = IF call.op = "set" /\ ~r.wait THEN Append(@, call.val) ELSE @,
                       !.taken = IF call.op \in {"get", "try_get"} /\ ~r.wait /\ r.ret.some
                                 THEN Append(@, r.ret.val) ELSE @]

\* Thread th calls op on the handle; a set brings a value no other call brings
HandleCall(th, op, target) ==
    /\ thr[th].at \in {"idle", "returned"}
    /\ hist.calls < MaxCalls
    /\ RunPass(th, [NoCall EXCEPT !.op = op,
                                  !.val = IF op = "set" THEN hist.calls + 1 ELSE 0], target)
    /\ UNCHANGED <<chan, alive, next_worker, serverVars, poolVars>>

\* is_set.wait returns in thread th after a notification: the mutex is taken
\* again and the loop tests the slot again
HandleResume(th, target) ==
    /\ thr[th].at = "notified"
    /\ RunPass(th, thr[th], target)
    /\ UNCHANGED <<chan, alive, next_worker, serverVars, poolVars>>

\* Condvar::wait may return with no notification (a spurious wake-up)
Spurious(th) ==
    /\ thr[th].at = "waiting"
    /\ thr' = [thr EXCEPT ![th].at = "notified"]
    /\ UNCHANGED <<value, hist, chan, alive, next_worker, serverVars, poolVars>>

----------------------------------------------------------------------------
(* The pool used on its own: Workers::queue, the workers' loop, wakers.    *)

\* ChannelMsg::Task(task) of the t-th future queued, ChannelMsg::Shutdown
ChannelMsgTask(t) == [kind |-> "Task", id |-> t]
ChannelMsgShutdown == [kind |-> "Shutdown", id |-> 0]

\* The task worker w has taken the future of and is polling
PollingOn(w) == {t \in TaskIds : tasks[t].future = "Polling" /\ tasks[t].worker = w}

\* Calls of wake so far, over the tasks 1..n
RECURSIVE WakesOf(_)
WakesOf(n) == IF n = 0 THEN 0 ELSE tasks[n].wakes + WakesOf(n - 1)

\* The messages of task t in channel w
Queued(t, w) == {i \in 1..Len(chan[w]) : chan[w][i] = ChannelMsgTask(t)}

\* Workers::queue(future): get_next_sender, Task::new(future, sender.clone()),
\* send_task
queue(t) ==
    /\ ~poisoned
    /\ tasks[t].submitted = "no"
    /\ \A u \in TaskIds : u < t => tasks[u].submitted # "no"
    /\ next_worker' = get_next_sender
    /\ IF SendOk(next_worker)
       THEN /\ chan' = [chan EXCEPT ![next_worker] = send(@, ChannelMsgTask(t))]
            /\ tasks' = [tasks EXCEPT ![t] = [NoTask EXCEPT !.submitted = "Ok",
                                                            !.worker = next_worker,
                                                            !.future = "Some"]]
       ELSE /\ chan' = chan
            /\ tasks' = [tasks EXCEPT ![t] = [NoTask EXCEPT !.submitted = "Err",
                                                            !.worker = next_worker]]
    /\ UNCHANGED <<alive, stopped, poisoned, joining, serverVars, handleVars>>

\* What the t-th future returns when it is queued with queue_with_result: a
\* value of its own (async { 42 } for the first)
Output(t) == 41 + t

\* Workers::queue_with_result(future) of a future that returns v: a new
\* ResultHandle, the future wrapped in async { result_handle.set(future.await) },
\* get_next_sender, send_task; Ok(handle) or the send's error
queue_with_result(t, v) ==
    /\ ~poisoned
    /\ tasks[t].submitted = "no"
    /\ \A u \in TaskIds : u < t => tasks[u].submitted # "no"
    /\ next_worker' = get_next_sender
    /\ IF SendOk(next_worker)
       THEN /\ chan' = [chan EXCEPT ![next_worker] = send(@, ChannelMsgTask(t))]
            /\ tasks' = [tasks EXCEPT ![t] = [NoTask EXCEPT !.submitted = "Ok",
                                                            !.worker = next_worker,
                                                            !.future = "Some",
                                                            !.with_result = TRUE,
                                                            !.output = v]]
       ELSE /\ chan' = chan
            /\ tasks' = [tasks EXCEPT ![t] = [NoTask EXCEPT !.submitted = "Err",
                                                            !.worker = next_worker,
                                                            !.with_result = TRUE,
                                                            !.output = v]]
    /\ UNCHANGED <<alive, stopped, poisoned, joining, serverVars, handleVars>>

\* The user's thread calls get on the handle queue_with_result returned; the
\* call returns once the slot is full
GetResult(t) ==
    /\ tasks[t].submitted = "Ok" /\ tasks[t].with_result
    /\ ~tasks[t].got.some
    /\ ~get(tasks[t].handle).wait
    /\ tasks' = [tasks EXCEPT ![t].got = get(tasks[t].handle).ret,
                              ![t].handle = get(tasks[t].handle).slot]
    /\ UNCHANGED <<chan, alive, next_worker, stopped, poisoned, joining, serverVars, handleVars>>

\* The worker's loop: recv() yields Shutdown, take_while ends the thread and
\* the Receiver is dropped with what is still queued
RecvShutdown(w) ==
    /\ alive[w] /\ PollingOn(w) = {} /\ chan[w] # <<>>
    /\ Head(chan[w]) = ChannelMsgShutdown
    /\ alive' = [alive EXCEPT ![w] = FALSE]
    /\ stopped' = [stopped EXCEPT ![w] = TRUE]
    /\ chan' = [chan EXCEPT ![w] = <<>>]
    /\ UNCHANGED <<next_worker, tasks, poisoned, joining, serverVars, handleVars>>

\* recv() yields a task; process_task: future.lock(), take().  With the
\* future there the poll begins; with None the message is passed over.
PollBegin(w) ==
    /\ alive[w] /\ PollingOn(w) = {} /\ chan[w] # <<>>
    /\ Head(chan[w]).kind = "Task"
    /\ LET t == Head(chan[w]).id
       IN  /\ chan' = [chan EXCEPT ![w] = Tail(@)]
           /\ tasks' = IF tasks[t].future = "Some"
                       THEN [tasks EXCEPT ![t].future = "Polling",
                                          ![t].polledBy = @ \cup {w},
                                          ![t].woken = FALSE]
                       ELSE tasks
    /\ UNCHANGED <<alive, next_worker, stopped, poisoned, joining, serverVars, handleVars>>

\* The poll of the future ends: Pending (the future is put back), Ready (it is
\* dropped), or a panic, which unwinds the worker thread
PollEnd(w, outcome) ==
    /\ alive[w] /\ PollingOn(w) # {}
    /\ LET t == CHOOSE u \in PollingOn(w) : TRUE
       IN  CASE outcome = "Pending" ->
                  /\ tasks' = [tasks EXCEPT ![t].future = "Some"]
                  /\ UNCHANGED <<chan, alive>>
             [] outcome = "Ready" ->
                  /\ tasks' = [tasks EXCEPT ![t].future = "None",
                                            ![t].done = TRUE, ![t].woken = FALSE,
                                            ![t].handle =
                                                IF tasks[t].with_result
                                                THEN set(@, tasks[t].output).slot
                                                ELSE @]
                  /\ UNCHANGED <<chan, alive>>
             [] OTHER ->
                  /\ tasks' = [tasks EXCEPT ![t].future = "None",
                                            ![t].panicked = IF poisoned THEN "after"
                                                            ELSE "before"]
                  /\ alive' = [alive EXCEPT ![w] = FALSE]
                  /\ chan' = [chan EXCEPT ![w] = <<>>]
    /\ UNCHANGED <<next_worker, stopped, poisoned, joining, serverVars, handleVars>>

\* impl Wake for ChannelMsg: any thread that holds a waker of the task calls
\* wake; task.sender.send(self_clone).expect(..)
Wake(t) ==
    /\ tasks[t].submitted = "Ok"
    /\ tasks[t].polledBy # {}
    /\ WakesOf(MaxTasks) < MaxWakes
    /\ IF SendOk(tasks[t].worker)
       THEN /\ chan' = [chan EXCEPT ![tasks[t].worker] = send(@, ChannelMsgTask(t))]
            /\ tasks' = [tasks EXCEPT ![t].wakes = @ + 1,
                                      ![t].woken = @ \/ tasks[t].future # "None"]
       ELSE /\ chan' = chan
            /\ tasks' = [tasks EXCEPT ![t].wakes = @ + 1,
                                      ![t].woken = @ \/ tasks[t].future # "None",
                                      ![t].wakeFailed = TRUE]
    /\ UNCHANGED <<alive, next_worker, stopped, poisoned, joining, serverVars, handleVars>>

\* Workers::poison_all: Shutdown to every sender, failures ignored; then the
\* workers are joined in their order, the first one first
poison_all ==
    /\ ~poisoned
    /\ poisoned' = TRUE
    /\ joining' = Joining(0)
    /\ chan' = [w \in WorkerIds |->
                  IF SendOk(w) THEN send(chan[w], ChannelMsgShutdown) ELSE chan[w]]
    /\ UNCHANGED <<alive, next_worker, tasks, stopped, serverVars, handleVars>>

\* Worker::join of worker w inside poison_all: thread_handle.join() returns
\* once w's thread has ended, Ok(()) if its closure returned, Err(payload) if
\* it unwound; unwrap() panics on Err and poison_all unwinds with it
join(w) ==
    /\ joining = Joining(w)
    /\ ~alive[w]
    /\ joining' = IF ~stopped[w] THEN PoisonPanicked(w)
                  ELSE IF w + 1 < NumWorkers THEN Joining(w + 1)
                  ELSE PoisonReturned
    /\ UNCHANGED <<chan, alive, next_worker, tasks, stopped, poisoned, serverVars, handleVars>>

----------------------------------------------------------------------------
(* Specifications.                                                         *)

\* The reactor with its worker pool; every peer sends its request in one piece.
Next ==
    \/ \E fd \in Fds, rid \in {1, 6} : Accept(fd, rid)
    \/ \E fd \in Fds : Dispatch(fd)
    \/ \E w \in WorkerIds : StepRead(w)
    \/ \E w \in WorkerIds : StepWrite(w)
    \/ \E fd \in Fds : PeerSend(fd, Len(Requests[sock[fd].rid]) - sock[fd].sent)
    \/ \E fd \in Fds : PeerClose(fd)

Spec == Init /\ [][Next]_vars

\* The reactor when accept or the registration of a connection may fail, and
\* a shutdown may be asked for.
NextReactor ==
    \/ Next
    \/ AcceptFails
    \/ \E fd \in Fds, rid \in {1, 6} : RegisterFails(fd, rid)
    \/ RequestShutdown

SpecReactor == Init /\ [][NextReactor]_vars

\* The pool with futures that may return Pending and be woken, or panic.
NextPool ==
    \/ \E t \in TaskIds : queue(t)
    \/ \E w \in WorkerIds : RecvShutdown(w)
    \/ \E w \in WorkerIds : PollBegin(w)
    \/ \E w \in WorkerIds, outcome \in {"Pending", "Ready", "Panic"} : PollEnd(w, outcome)
    \/ \E t \in TaskIds : Wake(t)
    \/ poison_all
    \/ \E w \in WorkerIds : join(w)

SpecPool == Init /\ [][NextPool]_vars

\* The pool with futures queued for their result, and the user's get.
NextResult ==
    \/ \E t \in TaskIds : queue_with_result(t, Output(t))
    \/ \E w \in WorkerIds : PollBegin(w)
    \/ \E w \in WorkerIds, outcome \in {"Pending", "Ready", "Panic"} : PollEnd(w, outcome)
    \/ \E t \in TaskIds : Wake(t)
    \/ \E t \in TaskIds : GetResult(t)

SpecResult == Init /\ [][NextResult]_vars

\* The pool with futures queued for their result, shut down by poison_all
\* while wakers of its tasks are still held by other threads.
NextShutdown ==
    \/ \E t \in TaskIds : queue_with_result(t, Output(t))
    \/ \E w \in WorkerIds : RecvShutdown(w)
    \/ \E w \in WorkerIds : PollBegin(w)
    \/ \E w \in WorkerIds, outcome \in {"Pending", "Ready", "Panic"} : PollEnd(w, outcome)
    \/ \E t \in TaskIds : Wake(t)
    \/ \E t \in TaskIds : GetResult(t)
    \/ poison_all
    \/ \E w \in WorkerIds : join(w)

SpecShutdown == Init /\ [][NextShutdown]_vars

\* One ResultHandle shared by threads that set, get, try_get and is_ready.
NextHandle ==
    \/ \E th \in Threads, op \in HandleOps, target \in Threads \cup {0} :
          HandleCall(th, op, target)
    \/ \E th \in Threads, target \in Threads \cup {0} : HandleResume(th, target)
    \/ \E th \in Threads : Spurious(th)

SpecHandle == Init /\ [][NextHandle]_vars

\* One connection driven step by step by a direct caller; the peer's bytes
\* arrive in pieces of any size.
NextConn ==
    \/ \E rid \in {1, 6, 7, 8} : Open(1, rid)
    \/ \E i \in 1..5 : OpenWrite(1, i)
    \/ Call(1)
    \/ \E w \in WorkerIds : StepRead(w)
    \/ \E w \in WorkerIds : StepWrite(w)
    \/ \E w \in WorkerIds : StepFlush(w)
    \/ \E n \in 1..MAX_REQUEST_SIZE : PeerSend(1, n)
    \/ PeerClose(1)

SpecConn == Init /\ [][NextConn]_vars

\* One connection whose request goes to a handler that reads the body; the
\* body arrives in pieces of any size while the steps run.
NextBody ==
    \/ \E n \in 0..MaxBody : OpenBody(1, n)
    \/ \E k \in 1..(MaxBody + 1) : PeerSendBody(1, k)
    \/ PeerClose(1)
    \/ Call(1)
    \/ \E w \in WorkerIds : BodyCall(w)
    \/ \E w \in WorkerIds : BodyDelimiter(w)
    \/ \E w \in WorkerIds : BodyContent(w)
    \/ \E w \in WorkerIds : StepWriteEcho(w)
    \/ \E w \in WorkerIds : StepFlush(w)

SpecBody == Init /\ [][NextBody]_vars

\* The Read step as a function of the request line: one connection whose
\* header block "METHOD path H\r\n\r\n" is queued whole, stepped by a direct
\* caller as in tests::async_can_read_and_match_the_right_handler.
Methods == {<<"G">>, <<"P">>}
Segments == {<<"a">>, <<"u">>, <<"1">>, <<"x">>}
Paths == {<<"/">> \o a : a \in Segments}
         \cup {<<"/">> \o a \o <<"/">> \o b : a \in Segments, b \in Segments}

InitRoute ==
    /\ connections = [fd \in Fds |-> NoEntry]
    /\ \E method \in Methods, path \in Paths :
          sock = [fd \in Fds |->
                    IF fd = 1
                    THEN [FreshSock EXCEPT !.phase = "open",
                                           !.sent = Len(HeaderBlock(method, path)),
                                           !.inq = HeaderBlock(method, path)]
                    ELSE FreshSock]
    /\ chan = [w \in WorkerIds |-> <<>>]
    /\ alive = [w \in WorkerIds |-> TRUE]
    /\ next_worker = 0
    /\ running = [w \in WorkerIds |-> Idle]
    /\ held = [fd \in Fds |-> IF fd = 1 THEN ReadState(<<>>) ELSE NoEntry]
    /\ accepts = 1
    /\ reactor = "polling"
    /\ shutdown_requested = FALSE
    /\ tasks = [t \in TaskIds |-> NoTask]
    /\ stopped = [w \in WorkerIds |-> FALSE]
    /\ poisoned = FALSE
    /\ joining = NotJoining
    /\ value = None
    /\ thr = [th \in Threads |-> NoCall]
    /\ hist = NoHistory
    /\ body_reader = [fd \in Fds |-> NoBody]
    /\ router = NoRouter

NextRoute ==
    \/ Call(1)
    \/ \E w \in WorkerIds : StepRead(w)
    \/ \E w \in WorkerIds : StepWrite(w)
    \/ \E w \in WorkerIds : StepFlush(w)

SpecRoute == InitRoute /\ [][NextRoute]_vars

\* body() as a function of the headers and of the stream behind the header
\* block: one connection in the Write state of a request to the echo
\* handler; the peer has sent everything it sends and finished sending, as
\* the in-memory stream of tests::test_chunked_body_reading.
MaxChunks == 2

\* A chunk on the wire, and the zero-size chunk with its final CRLF
Chunk(size, ext, data) == size \o ext \o CRLF \o data \o CRLF
LastChunk(ext) == <<"0">> \o ext \o CRLF \o CRLF

\* Chunks whose size line is the hexadecimal length of the payload
GoodChunks ==
    {[size |-> <<"1">>, data |-> <<"h">>],
     [size |-> <<"0", "2">>, data |-> CRLF],
     [size |-> <<"A">>, data |-> <<"0", "1", "2", "3", "4", "5", "6", "7", "8", "9">>],
     [size |-> <<"b">>, data |-> <<"0", "1", "2", "3", "4", "5", "6", "7", "8", "9", "\n">>]}
ChunkExtensions == {<<>>, <<";", "x", "=", "1">>}
\* Size lines that are not a hexadecimal number
BadSizes == {<<"g">>, <<>>, <<"-", "1">>, <<"+", "1">>, <<"1", "g">>, <<"0", "x", "1">>}
\* What follows the body in the stream
Rests == {<<>>, <<"z">>}

ChunkLists ==
    UNION {[1..n -> [size : {c.size : c \in GoodChunks}, ext : ChunkExtensions]] :
              n \in 0..MaxChunks}

DataOf(size) == (CHOOSE c \in GoodChunks : c.size = size).data

RECURSIVE EncodeChunks(_)
EncodeChunks(cs) ==
    IF cs = <<>> THEN <<>>
    ELSE Chunk(Head(cs).size, Head(cs).ext, DataOf(Head(cs).size)) \o EncodeChunks(Tail(cs))

RECURSIVE Payloads(_)
Payloads(cs) ==
    IF cs = <<>> THEN <<>> ELSE DataOf(Head(cs).size) \o Payloads(Tail(cs))

\* The streams a peer sends behind the blank line: a chunked body, a body
\* one of whose size lines is not hexadecimal, a body that ends early
ChunkedStreams ==
    {EncodeChunks(cs) \o LastChunk(ext) \o rest :
        cs \in ChunkLists, ext \in ChunkExtensions, rest \in Rests}
    \cup {EncodeChunks(cs) \o Chunk(bad, ext, <<"h">>) \o LastChunk(<<>>) :
            cs \in {c \in ChunkLists : Len(c) < MaxChunks}, bad \in BadSizes,
            ext \in ChunkExtensions}
    \cup {EncodeChunks(cs) : cs \in ChunkLists}

TransferEncodings ==
    {None,
     Some(<<"g", "z", "i", "p">>),
     Some(<<"c", "h", "u", "n", "k", "e", "d">>),
     Some(<<"C", "h", "u", "n", "k", "e", "d">>),
     Some(<<"g", "z", "i", "p", ",", " ", "C", "H", "U", "N", "K", "E", "D">>)}

InitChunked ==
    /\ connections = [fd \in Fds |-> NoEntry]
    /\ \E stream \in ChunkedStreams :
          sock = [fd \in Fds |->
                    IF fd = 1
                    THEN [FreshSock EXCEPT !.phase = "open",
                                           !.sent = header_end + Len(CRLFCRLF \o stream),
                                           !.consumed = header_end,
                                           !.inq = CRLFCRLF \o stream,
                                           !.peerClosed = TRUE]
                    ELSE FreshSock]
    /\ chan = [w \in WorkerIds |-> <<>>]
    /\ alive = [w \in WorkerIds |-> TRUE]
    /\ next_worker = 0
    /\ running = [w \in WorkerIds |-> Idle]
    /\ held = [fd \in Fds |->
                 IF fd = 1
                 THEN WriteState(AsyncRequest(EchoHandler.path, EchoHandler, <<>>), 0)
                 ELSE NoEntry]
    /\ accepts = 1
    /\ reactor = "polling"
    /\ shutdown_requested = FALSE
    /\ tasks = [t \in TaskIds |-> NoTask]
    /\ stopped = [w \in WorkerIds |-> FALSE]
    /\ poisoned = FALSE
    /\ joining = NotJoining
    /\ value = None
    /\ thr = [th \in Threads |-> NoCall]
    /\ hist = NoHistory
    /\ \E te \in TransferEncodings, cl \in {None, Some(1)} :
          body_reader = [fd \in Fds |->
                           IF fd = 1
                           THEN [NoBody EXCEPT !.content_length = cl,
                                               !.transfer_encoding = te]
                           ELSE NoBody]
    /\ router = NoRouter

NextChunked ==
    \/ Call(1)
    \/ \E w \in WorkerIds : BodyCall(w)
    \/ \E w \in WorkerIds : BodyDelimiter(w)
    \/ \E w \in WorkerIds : BodyContent(w)
    \/ \E w \in WorkerIds : BodyChunked(w)
    \/ \E w \in WorkerIds : StepWriteEcho(w)
    \/ \E w \in WorkerIds : StepFlush(w)

SpecChunked == InitChunked /\ [][NextChunked]_vars

\* A PathRouter on its own, as in path_matcher.rs tests: routes are added,
\* paths are looked up, patterns are compiled and tried on paths.
MaxRoutes == 2

RoutePatterns ==
    {<<"/", "a">>, <<"/", ":", "i">>, <<"/", "a", "/", ":", "i">>,
     <<"/", ":", "i", "/", ":", "i">>, <<"a", "/", "/", "b", "/">>}
AskedPaths ==
    {<<"/">>, <<"/", "a">>, <<"/", "b">>, <<"/", "a", "/", "b">>, <<"/", "b", "/", "a">>,
     <<"/", "/", "a", "/", "/", "b">>, <<"a", "/", "b", "/">>}

routerOthers == <<connections, sock, chan, alive, next_worker, running, held, accepts,
                  reactor, shutdown_requested, poolVars, handleVars, body_reader>>

\* PathRouter::add_route; the handler of the route is its number
add_route(pattern) ==
    /\ Len(router.routes) < MaxRoutes
    /\ router' = [NoRouter EXCEPT !.op = "add_route",
                                  !.routes =
                     Append(router.routes,
                            [pattern |-> pattern, compiled |-> CompiledPath(pattern),
                             handler |-> Len(router.routes) + 1])]
    /\ UNCHANGED routerOthers

\* router.find_match(path)
FindMatch(path) ==
    /\ router' = [NoRouter EXCEPT !.routes = router.routes,
                                  !.op = "find_match", !.path = path,
                                  !.found = find_match_in(router.routes, path)]
    /\ UNCHANGED routerOthers

\* CompiledPath::new(pattern), then matches(path) and extract_params(path)
Matches(pattern, path) ==
    /\ router' = [NoRouter EXCEPT !.routes = router.routes,
                                  !.op = "matches", !.pattern = pattern, !.path = path,
                                  !.matched = matches(CompiledPath(pattern), path),
                                  !.params = extract_params(CompiledPath(pattern), path)]
    /\ UNCHANGED routerOthers

NextRouter ==
    \/ \E pattern \in RoutePatterns : add_route(pattern)
    \/ \E path \in AskedPaths : FindMatch(path)
    \/ \E pattern \in RoutePatterns, path \in AskedPaths : Matches(pattern, path)

SpecRouter == Init /\ [][NextRouter]_vars

\* The status line as a function of the status code: one connection in the
\* Write state of a request to a handler that answers with
\* Response::create(code, "") for the code its path names, stepped by a
\* direct caller.
StatusCodes ==
    {200, 201, 204, 301, 400, 401, 403, 404, 409, 411, 415, 418, 500, 503, 504, 505}
    \cup {0, 100, 302, 499, 600, 65535}

StatusHandler ==
    AsyncHandler(<<"G">>, <<"/", "s", "/", ":", "c", "o", "d", "e">>, "status_handler")

StatusRequest(code) ==
    AsyncRequest(<<"/", "s", "/">> \o Decimal(code), StatusHandler,
                 [n \in {"code"} |-> Decimal(code)])

InitStatus ==
    /\ connections = [fd \in Fds |-> NoEntry]
    /\ sock = [fd \in Fds |-> IF fd = 1 THEN [FreshSock EXCEPT !.phase = "open"]
                                         ELSE FreshSock]
    /\ chan = [w \in WorkerIds |-> <<>>]
    /\ alive = [w \in WorkerIds |-> TRUE]
    /\ next_worker = 0
    /\ running = [w \in WorkerIds |-> Idle]
    /\ \E code \in StatusCodes :
          held = [fd \in Fds |-> IF fd = 1 THEN WriteState(StatusRequest(code), 0)
                                           ELSE NoEntry]
    /\ accepts = 1
    /\ reactor = "polling"
    /\ shutdown_requested = FALSE
    /\ tasks = [t \in TaskIds |-> NoTask]
    /\ stopped = [w \in WorkerIds |-> FALSE]
    /\ poisoned = FALSE
    /\ joining = NotJoining
    /\ value = None
    /\ thr = [th \in Threads |-> NoCall]
    /\ hist = NoHistory
    /\ body_reader = [fd \in Fds |-> NoBody]
    /\ router = NoRouter

NextStatus ==
    \/ Call(1)
    \/ \E w \in WorkerIds : StepWrite(w)
    \/ \E w \in WorkerIds : StepFlush(w)

SpecStatus == InitStatus /\ [][NextStatus]_vars

----------------------------------------------------------------------------
(* Properties.                                                             *)

\* A step on fd returns to its direct caller in this transition
StepReturns(fd) == sock[fd].phase = "open" /\ held[fd] = NoEntry /\ held'[fd] # NoEntry

\* "HTTP/1.1 {code} {reason}\r\nContent-Length: {n}\r\n\r\n{body}"
WireFormat(code, reason, body) ==
    <<"H", "T", "T", "P", "/", "1", ".", "1", " ">> \o Decimal(code) \o <<" ">> \o reason
    \o <<"\r", "\n", "C", "o", "n", "t", "e", "n", "t", "-", "L", "e", "n", "g", "t", "h",
         ":", " ">> \o Decimal(Len(body)) \o <<"\r", "\n", "\r", "\n">> \o body

InternalServerError ==
    <<"I", "n", "t", "e", "r", "n", "a", "l", " ", "S", "e", "r", "v", "e", "r", " ",
      "E", "r", "r", "o", "r">>

\* C1: in the reactor, at most one task holds the stream and state of an fd,
\* and while one does the table has no entry for that fd; a task for fd comes
\* to exist only by the removal of fd's entry, whose state it carries; an
\* entry appears only when fd is accepted, or when the task that held fd ends
\* its step in a state that is not Flush.
C1_OneTaskPerFd ==
    /\ [](\A fd \in Fds :
             /\ Cardinality(HoldersOf(fd)) <= 1
             /\ InTask(fd) => connections[fd] = NoEntry)
    /\ [][\A fd \in Fds :
             /\ (~InTask(fd) /\ InTask(fd)') =>
                    /\ connections[fd] # NoEntry
                    /\ connections'[fd] = NoEntry
                    /\ TaskOf(fd)'.state = connections[fd]
             /\ (connections[fd] = NoEntry /\ connections'[fd] # NoEntry) =>
                    \/ /\ InTask(fd) /\ ~InTask(fd)'
                       /\ connections'[fd].kind \in {"Read", "Write"}
                    \/ /\ sock[fd].phase # "open" /\ sock'[fd].phase = "open"
                       /\ connections'[fd] = ReadState(<<>>)]_vars

\* C1 witness: a task put an entry back in state Write for one fd while
\* another task holds the other fd, whose entry is gone.
C1_Witness ==
    \E fd \in Fds, g \in Fds :
        /\ fd # g
        /\ connections[fd].kind = "Write" /\ ~InTask(fd)
        /\ InTask(g) /\ connections[g] = NoEntry /\ sock[g].phase = "open"

\* C2: a connection whose peer sent a well-formed request for the normal
\* handler, did not hang up and met no I/O failure is not dropped by the
\* server before it was sent its whole response, whatever happens on the
\* other connections.
C2_Isolation ==
    \A fd \in Fds :
        (sock[fd].phase = "closed" /\ sock[fd].rid = 1 /\ ~sock[fd].fault) =>
            sock[fd].out = WireFormat(200, <<"O", "K">>, <<"O", "K">>)

\* The 500 body a handler of the direct caller's Write state must be answered
\* with when it panics: handler 3 panics with the &str "boom", handler 4 with
\* the String "bang", handler 5 with a payload of another type
PanicBody(i) ==
    CASE i = 3 -> <<"I", "n", "t", "e", "r", "n", "a", "l", " ", "s", "e", "r", "v", "e", "r",
                    " ", "e", "r", "r", "o", "r", "\n", ":", "b", "o", "o", "m">>
      [] i = 4 -> <<"I", "n", "t", "e", "r", "n", "a", "l", " ", "s", "e", "r", "v", "e", "r",
                    " ", "e", "r", "r", "o", "r", "\n", ":", "b", "a", "n", "g">>
      [] OTHER -> <<"C", "a", "n", "n", "o", "t", " ", "i", "n", "t", "e", "r", "p", "r", "e",
                    "t", " ", "e", "r", "r", "o", "r", ".">>

\* C3: for a connection whose handler panics in the Write step, no worker
\* dies and the stream is not dropped; what the socket accepted is at all
\* times a prefix of the 500 response with the body of the payload, and is
\* the whole of it once the state is Flush without an I/O failure.
C3_PanicIs500 ==
    \A fd \in Fds :
        (sock[fd].phase # "free" /\ sock[fd].rid \in {3, 4, 5}) =>
            /\ \A w \in WorkerIds : alive[w]
            /\ sock[fd].phase = "open"
            /\ IsPrefix(sock[fd].out,
                        WireFormat(500, InternalServerError, PanicBody(sock[fd].rid)))
            /\ (ConnStateOf(fd) = FlushState /\ ~sock[fd].fault) =>
                    sock[fd].out = WireFormat(500, InternalServerError,
                                              PanicBody(sock[fd].rid))

\* C3 witness: the handler that panics with a &str was polled, the whole 500
\* response was written, the step returned Flush and every worker is alive.
C3_Witness ==
    /\ sock[1].rid = 3 /\ held[1] = FlushState /\ ~sock[1].fault
    /\ sock[1].out = WireFormat(500, InternalServerError, PanicBody(3))
    /\ \A w \in WorkerIds : alive[w]

\* C4: for a connection whose handler completes with Err("bad"), no worker
\* dies, the step returns a state (the stream is not dropped), and once the
\* state is Flush without an I/O failure the client was sent a 500 response
\* whose body holds the message.
C4_ErrIs500 ==
    \A fd \in Fds :
        (sock[fd].phase # "free" /\ sock[fd].rid = 2) =>
            /\ \A w \in WorkerIds : alive[w]
            /\ sock[fd].phase = "open"
            /\ (ConnStateOf(fd) = FlushState /\ ~sock[fd].fault) =>
                    /\ IsPrefix(<<"H", "T", "T", "P", "/", "1", ".", "1", " ", "5", "0", "0">>,
                                sock[fd].out)
                    /\ Find(sock[fd].out, <<"b", "a", "d">>) >= 0

\* C5: for a connection of the reactor whose request line has two tokens, no
\* worker dies, and when its stream is dropped without an I/O failure the
\* client was sent a 400 response and the table holds no entry for it.
C5_MalformedIs400 ==
    \A fd \in Fds :
        (sock[fd].phase # "free" /\ sock[fd].rid = 6) =>
            /\ \A w \in WorkerIds : alive[w]
            /\ (sock[fd].phase = "closed" /\ ~sock[fd].fault) =>
                    /\ IsPrefix(<<"H", "T", "T", "P", "/", "1", ".", "1", " ", "4", "0", "0">>,
                                sock[fd].out)
                    /\ connections[fd] = NoEntry

\* The response a Write step for req serializes, as the wire format
Expected(req) ==
    LET res == CatchUnwind(HandlerFn(req.handler.func, req)).res
    IN  WireFormat(res.status_code, get_status_msg(res.status_code), res.response_body)

\* C6: a Write(request, offset) step with bytes left to write returns Flush
\* when the socket accepts all of them, Write(request, offset + M) when it
\* accepts M > 0 of them and not all, Write(request, offset) on WouldBlock or
\* InvalidInput, and Flush on a write of zero bytes or another error.
C6_WriteOutcomes ==
    [][\A fd \in Fds :
          StepReturns(fd) =>
              LET st == TaskOf(fd).state
                  rem == Len(ResponseBytes(st.req).val) - st.written
                  M == Len(sock'[fd].out) - Len(sock[fd].out)
                  io == sock'[fd].io
              IN  (st.kind = "Write" /\ rem > 0) =>
                    /\ io \in {"Ok", "WouldBlock", "InvalidInput", "Other"}
                    /\ (io = "Ok" /\ M = rem) => held'[fd] = FlushState
                    /\ (io = "Ok" /\ 0 < M /\ M < rem) =>
                            held'[fd] = WriteState(st.req, st.written + M)
                    /\ io \in {"WouldBlock", "InvalidInput"} => (held'[fd] = st /\ M = 0)
                    /\ ((io = "Ok" /\ M = 0) \/ io = "Other") => held'[fd] = FlushState]_vars

\* C6 witness: a Write step took part of the response and a later one met
\* WouldBlock; the state is Write with the offset of the first.
C6_Witness ==
    /\ held[1].kind = "Write" /\ held[1].written = WriteChunk
    /\ Len(sock[1].out) = WriteChunk /\ sock[1].io = "WouldBlock"

\* C7: in every Write(request, offset) state of a handler that answers,
\* offset is at most the length of the serialized response and the bytes the
\* socket accepted are its first offset bytes; a write that completes the
\* response has emitted exactly the response.
C7_WrittenIsPrefix ==
    /\ [](\A fd \in Fds :
             LET st == ConnStateOf(fd)
             IN  (st.kind = "Write" /\ ResponseBytes(st.req).some) =>
                     /\ st.written <= Len(Expected(st.req))
                     /\ sock[fd].out = Take(Expected(st.req), st.written))
    /\ [][\A fd \in Fds :
             (StepReturns(fd) /\ TaskOf(fd).state.kind = "Write"
                 /\ held'[fd] = FlushState /\ sock'[fd].io = "Ok"
                 /\ Len(sock'[fd].out) > Len(sock[fd].out)) =>
                     sock'[fd].out = Expected(TaskOf(fd).state.req)]_vars

\* C7 witness: two Write steps each took a part of the 404 response; the
\* state is Write with the sum as its offset.
C7_Witness ==
    /\ sock[1].rid = 7 /\ held[1].kind = "Write" /\ held[1].written = 2 * WriteChunk
    /\ sock[1].out =
          Take(WireFormat(404, <<"N", "o", "t", " ", "F", "o", "u", "n", "d">>,
                          <<"R", "e", "s", "o", "u", "r", "c", "e", ":", " ", "/", "x",
                            " ", "n", "o", "t", " ", "f", "o", "u", "n", "d", ".">>),
               2 * WriteChunk)

\* C8: once the state of a connection is Flush it stays Flush: a step started
\* in Flush returns Flush whether the flush of the socket succeeds or fails.
C8_FlushAbsorbing ==
    [][\A fd \in Fds :
          ConnStateOf(fd).kind = "Flush" => ConnStateOf(fd)'.kind = "Flush"]_vars

\* C8 witness: the response was written whole, then a Flush step whose flush
\* failed returned Flush.
C8_Witness ==
    /\ sock[1].rid = 1 /\ held[1] = FlushState /\ sock[1].io = "Other"
    /\ sock[1].out = WireFormat(200, <<"O", "K">>, <<"O", "K">>)

\* C9: in every Write state the bytes consumed from the socket are the K
\* bytes before the delimiter of the stream, and the delimiter is unread.
C9_ConsumesHeaderOnly ==
    \A fd \in Fds :
        ConnStateOf(fd).kind = "Write" =>
            /\ sock[fd].consumed = Find(Requests[sock[fd].rid], CRLFCRLF)
            /\ IsPrefix(CRLFCRLF, sock[fd].inq)

\* C10: a Read step that ends while the socket holds no delimiter, the peer
\* has not hung up and no I/O call failed returns Read and has consumed
\* nothing.
C10_PrefixWaits ==
    [][\A fd \in Fds :
          (StepReturns(fd) /\ TaskOf(fd).state.kind = "Read"
              /\ Find(sock[fd].inq, CRLFCRLF) = -1 /\ ~sock[fd].peerClosed
              /\ ~sock'[fd].fault) =>
                  /\ held'[fd].kind = "Read"
                  /\ sock'[fd].consumed = sock[fd].consumed]_vars

\* C11: a Read step whose peek answered zero bytes, the peer having closed
\* before a whole header block arrived, ends (and returns Flush): no worker
\* is still inside the loop of read_http_request, about to peek again, on a
\* connection whose peer has closed and whose receive queue is empty.
C11_HangupEndsRead ==
    \A w \in WorkerIds :
        running[w] # Idle =>
            ~(sock[running[w].fd].peerClosed /\ sock[running[w].fd].inq = <<>>)

\* C12: a Read(partial) step returns Read only from the arm of a read or peek
\* that failed with WouldBlock or InvalidInput; it then returns Read(partial)
\* with the same partial buffer and has consumed no byte of the socket.  A
\* step in which an I/O call failed for good returns Flush.
C12_ReadErrors ==
    [][\A fd \in Fds :
          (StepReturns(fd) /\ TaskOf(fd).state.kind = "Read") =>
              /\ held'[fd].kind = "Read" =>
                    /\ held'[fd] = TaskOf(fd).state
                    /\ sock'[fd].consumed = sock[fd].consumed
                    /\ sock'[fd].inq = sock[fd].inq
              /\ (sock'[fd].fault /\ ~sock[fd].fault) => held'[fd] = FlushState]_vars

\* A route pattern matches a path when both have the same number of segments
\* and every segment of the pattern is a parameter or equals the path's
PathSegments(x) == NonEmpty(Split(x, "/"))

PatternMatches(pattern, path) ==
    /\ Len(PathSegments(pattern)) = Len(PathSegments(path))
    /\ \A k \in 1..Len(PathSegments(pattern)) :
          \/ Head(PathSegments(pattern)[k]) = ":"
          \/ PathSegments(pattern)[k] = PathSegments(path)[k]

\* The parameters of the pattern, each bound to the path's segment in its place
BoundParams(pattern, path) ==
    LET at == {k \in 1..Len(PathSegments(pattern)) : Head(PathSegments(pattern)[k]) = ":"}
    IN  [n \in {Tail(PathSegments(pattern)[k]) : k \in at} |->
            PathSegments(path)[CHOOSE k \in at : Tail(PathSegments(pattern)[k]) = n]]

\* C13: a Read step on the request line "METHOD path H" that meets no I/O
\* failure returns Write(request, 0); request.handler is the first registered
\* route whose pattern matches path, with the parameters of that pattern
\* bound, when that route's method is METHOD; when no route matches, or the
\* first that does has another method, request.handler is the 404 handler,
\* whose response body is "Resource: {path} not found.", and path_params is
\* empty.
C13_Routing ==
    [][\A method \in Methods, path \in Paths :
          (StepReturns(1) /\ TaskOf(1).state.kind = "Read"
              /\ sock[1].inq = HeaderBlock(method, path)
              /\ held'[1].kind # "Read" /\ ~sock'[1].fault) =>
                LET hits == {i \in 1..Len(Handlers) : PatternMatches(Handlers[i].path, path)}
                    first == CHOOSE i \in hits : \A j \in hits : i <= j
                    req == held'[1].req
                IN  /\ held'[1] = WriteState(req, 0)
                    /\ req.path = path
                    /\ IF hits # {} /\ Handlers[first].method = method
                       THEN /\ req.handler = Handlers[first]
                            /\ req.path_params = BoundParams(Handlers[first].path, path)
                       ELSE /\ req.handler = not_found(method)
                            /\ req.path_params = <<>>
                            /\ HandlerFn(req.handler.func, req) =
                                  [kind |-> "Ok",
                                   res |-> Response(404,
                                              <<"R", "e", "s", "o", "u", "r", "c", "e", ":", " ">>
                                              \o path
                                              \o <<" ", "n", "o", "t", " ", "f", "o", "u", "n",
                                                   "d", ".">>)]]_vars

\* C13 witness: the request "G /u/1 H", whose path two routes match, was
\* routed to the first of them, "/u/:i", with i bound to "1".
C13_Witness ==
    /\ held[1].kind = "Write"
    /\ held[1].req.path = <<"/", "u", "/", "1">>
    /\ held[1].req.handler = Handlers[6]
    /\ held[1].req.path_params = (<<"i">> :> <<"1">>)

C15_HangupDropsWithoutStep ==
    [][\A fd \in Fds :
          (connections[fd] # NoEntry /\ sock[fd].peerClosed /\ connections'[fd] = NoEntry) =>
              /\ ~InTask(fd)'
              /\ sock'[fd].phase = "closed"]_vars

\* C16: a connection of the reactor whose peer sends the well-formed request
\* for the normal handler, keeps reading and meets no I/O failure is at all
\* times on its way to the response: its stream is open and its state is in
\* the table or in a task some worker will poll, or it was sent the whole
\* response, its stream was dropped and the table has no entry for it.  (What
\* the claim's "eventually" needs of every finite run: the connection is
\* never left where the response can no longer come.)
C16_EveryRequestServed ==
    \A fd \in Fds :
        (sock[fd].phase # "free" /\ sock[fd].rid = 1 /\ ~sock[fd].fault) =>
            \/ /\ sock[fd].phase = "open"
               /\ \/ connections[fd] # NoEntry
                  \/ \E p \in HoldersOf(fd) : alive[p[1]]
            \/ /\ sock[fd].phase = "closed"
               /\ sock[fd].out = WireFormat(200, <<"O", "K">>, <<"O", "K">>)
               /\ connections[fd] = NoEntry

\* C17: once a shutdown was asked for, the reactor stops polling: it accepts
\* no connection and takes no entry out of the table to queue a step (the
\* tasks already queued may still end and put their entries back).
C17_ShutdownStopsReactor ==
    [][shutdown_requested =>
          /\ accepts' = accepts
          /\ \A fd \in Fds : connections[fd] # NoEntry => connections'[fd] # NoEntry]_vars

\* C18: no failure of accept or of the registration of an accepted connection
\* stops the reactor: the thread of start_blocking is polling at all times.
C18_ReactorSurvives == reactor = "polling"

\* C19: a task whose submission returned Ok and that no worker has polled yet
\* is in the channel of exactly one worker, the one whose sender it keeps, in
\* one message, and that worker is alive to poll it unless it left on
\* Shutdown; no task is ever polled by two workers.
C19_QueuedTaskIsPolled ==
    \A t \in TaskIds :
        /\ Cardinality(tasks[t].polledBy) <= 1
        /\ (tasks[t].submitted = "Ok" /\ tasks[t].polledBy = {}) =>
              /\ \A w \in WorkerIds \ {tasks[t].worker} : Queued(t, w) = {}
              /\ \/ stopped[tasks[t].worker]
                 \/ /\ alive[tasks[t].worker]
                    /\ Cardinality(Queued(t, tasks[t].worker)) = 1

\* C20: a task whose poll returned Pending and whose waker was called since
\* that poll began (before or after the future was put back) was sent again:
\* unless the pool was shut down, the wake's send did not fail and a message
\* of the task waits in the channel of its worker, which is alive, so that
\* the task is polled again with the future in its slot.
C20_NoLostWake ==
    \A t \in TaskIds :
        (tasks[t].woken /\ tasks[t].future = "Some" /\ ~poisoned) =>
            /\ ~tasks[t].wakeFailed
            /\ alive[tasks[t].worker]
            /\ Queued(t, tasks[t].worker) # {}

\* C21: a panic inside a poll does not corrupt the worker.  Every worker
\* thread runs until it receives Shutdown, so it still receives what is sent
\* to it after a task of it panicked; every submission made before
\* poison_all returned Ok; and poison_all does not unwind in a join.
C21_PanicLeavesWorkerIntact ==
    /\ \A w \in WorkerIds : alive[w] \/ stopped[w]
    /\ \A t \in TaskIds : tasks[t].submitted # "Err"
    /\ joining.at # "panicked"

\* C22: the handle of every future queued with queue_with_result is set once
\* the future is through: a future that completed left its output in the
\* handle (or the user's get has returned it), and a future that panicked
\* when polled left an error there, so that no get waits for ever on an
\* empty slot after the task ended.
C22_HandleIsSet ==
    \A t \in TaskIds :
        (tasks[t].with_result /\ tasks[t].submitted = "Ok"
            /\ tasks[t].polledBy # {} /\ tasks[t].future = "None") =>
                \/ tasks[t].handle.some
                \/ tasks[t].got.some

\* C23: queue_with_result hands out the handle while the future has not run;
\* the handle is not ready and no get has returned before the future
\* completed; once it completed with output v the handle holds v until the
\* user's get returns v.
C23_HandleHoldsOutput ==
    \A t \in TaskIds :
        (tasks[t].with_result /\ tasks[t].submitted = "Ok") =>
            IF ~tasks[t].done
            THEN ~is_ready(tasks[t].handle).ret /\ tasks[t].got = None
            ELSE \/ tasks[t].handle = Some(tasks[t].output) /\ tasks[t].got = None
                 \/ tasks[t].handle = None /\ tasks[t].got = Some(tasks[t].output)

\* Two handles were returned, one of a future no worker has polled yet; the
\* other future has completed and the user's get returned its output.
C23_Witness ==
    \E t, u \in TaskIds :
        /\ tasks[t].with_result /\ tasks[t].done
        /\ tasks[t].got = Some(tasks[t].output)
        /\ tasks[u].with_result /\ tasks[u].submitted = "Ok" /\ tasks[u].polledBy = {}

\* The Shutdown messages in worker w's channel
Shutdowns(w) == {i \in 1..Len(chan[w]) : chan[w][i] = ChannelMsgShutdown}

\* C24: when every poll in flight at poison_all, or begun after it, returns:
\* poison_all has sent every worker one Shutdown, which the worker has
\* received (and left its loop) or still has in its channel, alone of its
\* kind; the joins do not unwind, so that poison_all ends by returning; and
\* once it has returned no worker thread is alive and no task is being
\* polled.
C24_PoisonAllJoins ==
    (\A t \in TaskIds : tasks[t].panicked # "after") =>
        /\ poisoned =>
              \A w \in WorkerIds :
                  \/ stopped[w] /\ ~alive[w]
                  \/ alive[w] /\ Cardinality(Shutdowns(w)) = 1
        /\ joining.at # "panicked"
        /\ joining = PoisonReturned =>
              \A w \in WorkerIds : ~alive[w] /\ PollingOn(w) = {}

\* C25: of two tasks sent to the same worker's channel the one sent earlier
\* is polled first: whenever the later one has been polled, the earlier one
\* has been polled already.  (Tasks are queued in the order of their
\* numbers.)  Between tasks of different workers there is no such order.
C25_FifoPerWorker ==
    \A u, t \in TaskIds :
        (/\ u < t
         /\ tasks[u].submitted = "Ok" /\ tasks[t].submitted = "Ok"
         /\ tasks[u].worker = tasks[t].worker
         /\ tasks[t].polledBy # {}) => tasks[u].polledBy # {}

\* Both tasks of one worker have been polled, after a task that was sent
\* between them to another worker, or before it: that one is not polled yet
\* while a task sent after it is.
C25_Witness ==
    \E u, m, t \in TaskIds :
        /\ u < m /\ m < t
        /\ tasks[u].submitted = "Ok" /\ tasks[m].submitted = "Ok" /\ tasks[t].submitted = "Ok"
        /\ tasks[u].worker = tasks[t].worker /\ tasks[m].worker # tasks[t].worker
        /\ tasks[u].polledBy # {} /\ tasks[t].polledBy # {}
        /\ tasks[m].polledBy = {}

\* The values of a sequence
Range(q) == {q[i] : i \in 1..Len(q)}

\* Thread th's call returns in this step
Returns(th) == thr'[th].at = "returned" /\ thr'[th] # thr[th]

\* C26: the handle holds at most one value: at most one value is stored and
\* not yet taken; a set that found the slot full has not stored its value and
\* has not returned; a set returns only from a pass that found the slot
\* empty, leaving its value there; and a full slot changes only by being
\* emptied, never to another value.
C26_AtMostOneValue ==
    /\ [](/\ Len(hist.stored) - Len(hist.taken) <= 1
          /\ \A th \in Threads :
                (thr[th].op = "set" /\ thr[th].at \in {"waiting", "notified"}) =>
                    /\ thr[th].val \notin Range(hist.stored)
                    /\ value # Some(thr[th].val))
    /\ [][/\ value.some => value' \in {value, None}
          /\ \A th \in Threads :
                (Returns(th) /\ thr'[th].op = "set") =>
                    ~value.some /\ value' = Some(thr'[th].val)]_vars

\* A set waits because the slot is full with the value of an earlier set
C26_Witness ==
    \E th \in Threads :
        /\ thr[th].op = "set" /\ thr[th].at = "waiting"
        /\ value.some /\ value # Some(thr[th].val)

\* C27: a get returns only from a pass that found the slot full, with the
\* value that was there, and a call that waits has returned nothing; the
\* values the sets stored are the values the takes returned, each once and
\* in the same order, followed by the one still in the slot; and a take that
\* returns a value leaves the slot empty, is_ready false.
C27_EachValueTakenOnce ==
    /\ [](/\ hist.stored = hist.taken \o (IF value.some THEN <<value.val>> ELSE <<>>)
          /\ \A th \in Threads :
                thr[th].at \in {"waiting", "notified"} => thr[th].ret = None)
    /\ [][\A th \in Threads :
             /\ (Returns(th) /\ thr'[th].op = "get") =>
                    value.some /\ thr'[th].ret = value
             /\ (Returns(th) /\ thr'[th].op \in {"get", "try_get"} /\ thr'[th].ret.some) =>
                    value' = None /\ ~is_ready(value').ret]_vars

\* A get called on the empty slot has waited, a set came, and the get has
\* returned that set's value, the slot empty again
C27_Witness ==
    \E th \in Threads :
        /\ thr[th].op = "get" /\ thr[th].at = "returned" /\ thr[th].waited
        /\ thr[th].ret.some /\ thr[th].ret.val \in Range(hist.stored)
        /\ value = None

\* C28: try_get and is_ready never wait: a thread that called one of them
\* has returned.  try_get returns what the slot held, None when it was
\* empty, and leaves the slot empty; is_ready returns whether the slot is
\* full and leaves the slot as it was.
C28_TryGetAndIsReadyNeverWait ==
    /\ [](\A th \in Threads :
             thr[th].op \in {"try_get", "is_ready"} =>
                 thr[th].at = "returned" /\ ~thr[th].waited)
    /\ [][\A th \in Threads :
             /\ (Returns(th) /\ thr'[th].op = "try_get") =>
                    /\ thr'[th].ret = (IF value.some THEN value ELSE None)
                    /\ value' = None
             /\ (Returns(th) /\ thr'[th].op = "is_ready") =>
                    /\ thr'[th].ready = value.some
                    /\ value' = value]_vars

\* is_ready has answered true on the full slot, a try_get has then taken the
\* value, and a second try_get has found the slot empty
C28_Witness ==
    \E a, b, c \in Threads :
        /\ thr[a].op = "is_ready" /\ thr[a].at = "returned" /\ thr[a].ready
        /\ thr[b].op = "try_get" /\ thr[b].at = "returned" /\ thr[b].ret.some
        /\ thr[c].op = "try_get" /\ thr[c].at = "returned" /\ thr[c].ret = None
        /\ hist.taken = <<thr[b].ret.val>> /\ value = None

\* C29: in the first call of body() on a request with Content-Length N,
\* however the body arrives: what it returns is the N bytes that follow the
\* blank line, or an error of the 400 class; nothing past the N-th body byte
\* is read from the socket; and while the call waits for the rest of the
\* body, every body byte it has read from the socket is kept in its buffer.
C29_BodyIsExactlyN ==
    \A fd \in Fds :
        LET b == body_reader[fd]
            N == b.content_length.val
            start == header_end + Len(CRLFCRLF)
        IN  (b.content_length.some /\ b.calls = 1) =>
                /\ b.ret.kind = "Ok" => b.ret.data = SubSeq(BodyStream, start + 1, start + N)
                /\ b.ret.kind = "Err" => b.ret.status_code \in 400..499
                /\ sock[fd].consumed <= start + N
                /\ b.at = "content" => sock[fd].consumed = start + b.kept

\* C30: the body reader is called at most once on a connection, whatever
\* number of Write steps the response takes.
C30_BodyReadOnce ==
    \A fd \in Fds : body_reader[fd].calls <= 1

\* C31: while body() waits for bytes that have not arrived (its last read
\* answered WouldBlock) the task is suspended: no worker is inside the poll of
\* that task, so every worker is free to receive the next message of its
\* channel.
C31_BodyWaitFreesWorker ==
    \A w \in WorkerIds :
        running[w] # Idle => ~body_reader[running[w].fd].would_block

\* The same letter, whatever its case
SameLetter(a, b) ==
    \/ a = b
    \/ \E k \in 1..Len(UpperCase) : {a, b} = {UpperCase[k], LowerCase[k]}

\* word occurs in str in some letter case
ContainsAnyCase(str, word) ==
    \E i \in 0..(Len(str) - Len(word)) :
        \A k \in 1..Len(word) : SameLetter(str[i + k], word[k])

\* A hexadecimal number: one hexadecimal digit or more
HexChars == {"0", "1", "2", "3", "4", "5", "6", "7", "8", "9",
             "a", "b", "c", "d", "e", "f", "A", "B", "C", "D", "E", "F"}
IsHexadecimal(size) == size # <<>> /\ \A i \in 1..Len(size) : size[i] \in HexChars

\* C32: for a request without a parsable Content-Length whose
\* Transfer-Encoding contains "chunked" in any letter case, body() reads the
\* body as chunks: it returns the payloads of the chunks joined in stream
\* order and has consumed the stream up to and including the CRLF that ends
\* the zero-size chunk, extensions behind ';' or not, the empty string when
\* the first chunk has size zero; a size line that is not a hexadecimal
\* number makes it return a 400 error.
C32_ChunkedBody ==
    /\ [][(/\ body_reader[1].at = "delimiter" /\ body_reader'[1].at # "delimiter"
           /\ ~body_reader[1].content_length.some
           /\ body_reader[1].transfer_encoding.some
           /\ ContainsAnyCase(body_reader[1].transfer_encoding.val,
                              <<"c", "h", "u", "n", "k", "e", "d">>)
           /\ IsPrefix(CRLFCRLF, sock[1].inq)) =>
              body_reader'[1].at = "chunked"]_vars
    /\ [][(body_reader[1].at = "chunked" /\ body_reader'[1].at = "returned") =>
              /\ \A cs \in ChunkLists, ext \in ChunkExtensions, rest \in Rests :
                    sock[1].inq = EncodeChunks(cs) \o LastChunk(ext) \o rest =>
                        /\ body_reader'[1].ret = BodyOk(Payloads(cs))
                        /\ sock'[1].inq = rest
                        /\ sock'[1].consumed =
                              sock[1].consumed + Len(EncodeChunks(cs) \o LastChunk(ext))
              /\ \A cs \in ChunkLists, size \in BadSizes, ext \in ChunkExtensions :
                    (/\ ~IsHexadecimal(size)
                     /\ IsPrefix(EncodeChunks(cs) \o size \o ext \o CRLF, sock[1].inq)) =>
                        body_reader'[1].ret = BodyErr(400)]_vars

\* C33 (first part): body() of a request with no Content-Length and no
\* chunked Transfer-Encoding fails with 411, having read the four bytes of
\* the blank line and nothing else.
LengthRequired ==
    [][(/\ body_reader[1].at = "delimiter" /\ body_reader'[1].at # "delimiter"
        /\ ~body_reader[1].content_length.some
        /\ ~(/\ body_reader[1].transfer_encoding.some
             /\ ContainsAnyCase(body_reader[1].transfer_encoding.val,
                                <<"c", "h", "u", "n", "k", "e", "d">>))
        /\ IsPrefix(CRLFCRLF, sock[1].inq)) =>
           /\ body_reader'[1].ret = BodyErr(411)
           /\ sock'[1].consumed = sock[1].consumed + Len(CRLFCRLF)
           /\ sock'[1].inq = Drop(sock[1].inq, Len(CRLFCRLF))]_vars

\* The start of a response with status 411
StatusLine411 == <<"H", "T", "T", "P", "/", "1", ".", "1", " ", "4", "1", "1", " ">>

\* C33: body() of a request with no Content-Length and no chunked
\* Transfer-Encoding fails with 411 and has consumed only the four delimiter
\* bytes; when the handler passes the failure on, the Write step answers
\* with a response of status 411 (what it has written of it starts the
\* status line "HTTP/1.1 411 ").
C33_LengthRequired411 ==
    /\ LengthRequired
    /\ [][\A w \in WorkerIds :
             (/\ running[w] # Idle /\ running[w].fd = 1 /\ running'[w] = Idle
              /\ body_reader[1].at = "returned"
              /\ body_reader[1].ret = BodyErr(411)) =>
                /\ alive'[w]
                /\ \/ IsPrefix(sock'[1].out, StatusLine411)
                   \/ IsPrefix(StatusLine411, sock'[1].out)]_vars

\* A compiled pattern fits a path: as many segments as the path has
\* non-empty segments, and every Literal equal to the path's segment there
Fits(compiled, path) ==
    /\ Len(compiled) = Len(PathSegments(path))
    /\ \A k \in 1..Len(compiled) :
          compiled[k].kind = "Literal" => compiled[k].s = PathSegments(path)[k]

ParamsAt(compiled) == {k \in 1..Len(compiled) : compiled[k].kind = "Parameter"}
ParamNames(compiled) == {compiled[k].s : k \in ParamsAt(compiled)}

\* Every parameter's name is bound to the path's segment at the parameter's index
BindsEach(params, compiled, path) ==
    /\ DOMAIN params = ParamNames(compiled)
    /\ \A k \in ParamsAt(compiled) : params[compiled[k].s] = PathSegments(path)[k]

\* Every name is bound to the path's segment at the index of the last
\* parameter that has the name
BindsLast(params, compiled, path) ==
    /\ DOMAIN params = ParamNames(compiled)
    /\ \A k \in ParamsAt(compiled) :
          (\A j \in ParamsAt(compiled) : compiled[j].s = compiled[k].s => j <= k) =>
              params[compiled[k].s] = PathSegments(path)[k]

\* The routes of the router that fit the path it was asked for, and what
\* find_match returned being the first of them
FittingRoutes ==
    {i \in 1..Len(router.routes) : Fits(router.routes[i].compiled, router.path)}

FirstFitting == CHOOSE i \in FittingRoutes : \A j \in FittingRoutes : i <= j

FoundIsFirst ==
    /\ \A i \in 1..Len(router.routes) :
          Len(router.routes[i].compiled) = Len(PathSegments(router.routes[i].pattern))
    /\ IF FittingRoutes = {} THEN router.found = None
       ELSE /\ router.found.some
            /\ router.found.val.handler = router.routes[FirstFitting].handler

\* C34 as claimed: find_match(path) returns the first route in insertion
\* order whose compiled pattern fits the path, empty segments of pattern and
\* path ignored, with a map that binds each Parameter name of the pattern to
\* the path segment at the parameter's index; None when no route fits.
C34_FindMatchBindsEach ==
    router.op = "find_match" =>
        /\ FoundIsFirst
        /\ FittingRoutes # {} =>
              BindsEach(router.found.val.params,
                        router.routes[FirstFitting].compiled, router.path)

\* C34 amended: find_match(path) returns the first route in insertion order
\* whose compiled pattern fits the path, empty segments of pattern and path
\* ignored, with a map that binds each Parameter name of the pattern to the
\* path segment at the index of the last Parameter of that name; None when
\* no route fits.
C34_FindMatchFirstRoute ==
    router.op = "find_match" =>
        /\ FoundIsFirst
        /\ FittingRoutes # {} =>
              BindsLast(router.found.val.params,
                        router.routes[FirstFitting].compiled, router.path)

\* C34 witness: two routes were added that both fit the path asked for, and
\* find_match returned the one added first, with its parameter bound.
C34_Witness ==
    /\ router.op = "find_match"
    /\ Len(router.routes) = 2 /\ FittingRoutes = {1, 2}
    /\ router.routes[1].pattern = <<"/", ":", "i">>
    /\ router.routes[2].pattern = <<"/", "a">>
    /\ router.found = Some([handler |-> 1, params |-> (<<"i">> :> <<"a">>)])

\* C35 as claimed: matches(path) is true exactly when extract_params(path) is
\* Some, and then the keys of the map are the parameter names of the
\* pattern, each bound to the path segment at the parameter's index.
C35_MatchesIffParamsEach ==
    router.op = "matches" =>
        /\ router.matched <=> router.params.some
        /\ router.matched =>
              BindsEach(router.params.val, CompiledPath(router.pattern), router.path)

\* C35 amended: matches(path) is true exactly when extract_params(path) is
\* Some, and then the keys of the map are the parameter names of the
\* pattern, each bound to the path segment at the index of the last
\* parameter of that name.
C35_MatchesIffParams ==
    router.op = "matches" =>
        /\ router.matched <=> router.params.some
        /\ router.matched =>
              BindsLast(router.params.val, CompiledPath(router.pattern), router.path)

\* C35 witness: the pattern "/:i/:i" was tried on "/a/b": it matches, and i
\* is bound to "b".
C35_Witness ==
    /\ router.op = "matches"
    /\ router.pattern = <<"/", ":", "i", "/", ":", "i">>
    /\ router.path = <<"/", "a", "/", "b">>
    /\ router.matched
    /\ router.params = Some(<<"i">> :> <<"b">>)

\* The reason phrases of the fixed table
ReasonPhrase(code) ==
    CASE code = 200 -> <<"O", "K">>
      [] code = 201 -> <<"C", "r", "e", "a", "t", "e", "d">>
      [] code = 204 -> <<"N", "o", " ", "C", "o", "n", "t", "e", "n", "t">>
      [] code = 301 -> <<"M", "o", "v", "e", "d", " ", "P", "e", "r", "m", "a", "n",
                         "e", "n", "t", "l", "y">>
      [] code = 400 -> <<"B", "a", "d", " ", "R", "e", "q", "u", "e", "s", "t">>
      [] code = 401 -> <<"U", "n", "a", "u", "t", "h", "o", "r", "i", "z", "e", "d">>
      [] code = 403 -> <<"F", "o", "r", "b", "i", "d", "d", "e", "n">>
      [] code = 404 -> <<"N", "o", "t", " ", "F", "o", "u", "n", "d">>
      [] code = 409 -> <<"C", "o", "n", "f", "l", "i", "c", "t">>
      [] code = 411 -> <<"L", "e", "n", "g", "t", "h", " ", "R", "e", "q", "u", "i", "r",
                         "e", "d">>
      [] code = 415 -> <<"U", "n", "s", "u", "p", "p", "o", "r", "t", "e", "d", " ",
                         "M", "e", "d", "i", "a", " ", "T", "y", "p", "e">>
      [] code = 418 -> <<"I", "'", "m", " ", "a", " ", "t", "e", "a", "p", "o", "t">>
      [] code = 500 -> InternalServerError
      [] code = 503 -> <<"S", "e", "r", "v", "i", "c", "e", " ", "U", "n", "a", "v",
                         "a", "i", "l", "a", "b", "l", "e">>
      [] code = 504 -> <<"G", "a", "t", "e", "w", "a", "y", " ", "T", "i", "m", "e", "o",
                         "u", "t">>
      [] code = 505 -> <<"H", "T", "T", "P", " ", "V", "e", "r", "s", "i", "o", "n",
                         " ", "N", "o", "t", " ", "S", "u", "p", "p", "o", "r", "t",
                         "e", "d">>

FixedTable == {200, 201, 204, 301, 400, 401, 403, 404, 409, 411, 415, 418, 500, 503, 504, 505}

\* "HTTP/1.1 {code} "
StatusLineStart(code) ==
    <<"H", "T", "T", "P", "/", "1", ".", "1", " ">> \o Decimal(code) \o <<" ">>

\* C36: the response to a handler's Response of status code starts with the
\* status line "HTTP/1.1 {code} {phrase}" and CRLF, where phrase is the
\* reason phrase of the fixed table for a code of the table and, for every
\* other code, a phrase that contains the code: whatever a Write step has
\* written of the response agrees with that line.
C36_StatusLine ==
    [][\A code \in StatusCodes :
          (/\ StepReturns(1) /\ TaskOf(1).state.kind = "Write"
           /\ TaskOf(1).state.req = StatusRequest(code)) =>
              LET out == sock'[1].out
                  end == Find(out, CRLF)
                  start == StatusLineStart(code)
              IN  IF code \in FixedTable
                  THEN \/ IsPrefix(out, start \o ReasonPhrase(code) \o CRLF)
                       \/ IsPrefix(start \o ReasonPhrase(code) \o CRLF, out)
                  ELSE /\ IsPrefix(out, start) \/ IsPrefix(start, out)
                       /\ end # -1 =>
                             Find(SubSeq(out, Len(start) + 1, end), Decimal(code)) # -1]_vars

\* C37: threads call set and get on one handle, as many gets as sets.  Once
\* these calls are made and no notification is on its way to a thread (no
\* thread is about to leave is_set.wait), every call has returned: no set
\* is left waiting while the slot is empty and no get while it is full, no
\* wake-up was lost.
C37_EveryCallReturns ==
    (/\ hist.calls = hist.sets + hist.gets
     /\ hist.sets = hist.gets
     /\ \A th \in Threads : thr[th].at # "notified") =>
        \A th \in Threads : thr[th].at # "waiting"

\* The registered handlers that have both the method and a pattern that
\* matches the path
HandlersFor(method, path) ==
    {i \in 1..Len(Handlers) :
        Handlers[i].method = method /\ PatternMatches(Handlers[i].path, path)}

\* C38: a Read step on the request line "METHOD path H" that meets no I/O
\* failure dispatches the request to a registered handler whose method is
\* METHOD and whose pattern matches path, wherever among the routes it was
\* registered (GET /a and POST /a are both registered, each is reachable);
\* the request gets the 404 handler only when no registered handler has both.
C38_EachMethodReachable ==
    [][\A method \in Methods, path \in Paths :
          (StepReturns(1) /\ TaskOf(1).state.kind = "Read"
              /\ sock[1].inq = HeaderBlock(method, path)
              /\ held'[1].kind # "Read" /\ ~sock'[1].fault) =>
                IF HandlersFor(method, path) = {}
                THEN held'[1].req.handler = not_found(method)
                ELSE \E i \in HandlersFor(method, path) :
                        held'[1].req.handler = Handlers[i]]_vars

\* Every message of task t in its worker's channel is behind a Shutdown
BehindShutdown(t) ==
    LET w == tasks[t].worker
    IN  /\ Queued(t, w) # {}
        /\ \A j \in Queued(t, w) : \E i \in Shutdowns(w) : i < j

\* The suspended task t will not be received again: its worker's thread has
\* ended, or what is queued of t follows the Shutdown of its worker
NotReceivedAgain(t) ==
    /\ tasks[t].submitted = "Ok" /\ tasks[t].future = "Some"
    /\ ~alive[tasks[t].worker] \/ BehindShutdown(t)

\* C39: a task whose submission completed (before poison_all: there is none
\* after it) has been polled at least once when its worker's thread has
\* ended; and a suspended task whose waker re-sent it behind the Shutdown of
\* its worker is never polled again, nor is its result handle ever set: it
\* stays as it is from then on.
C39_PolledBeforeExit ==
    /\ [](\A t \in TaskIds :
            (tasks[t].submitted = "Ok" /\ ~alive[tasks[t].worker]) => tasks[t].polledBy # {})
    /\ [][\A t \in TaskIds :
            NotReceivedAgain(t) =>
                /\ NotReceivedAgain(t)'
                /\ ~tasks'[t].handle.some /\ ~tasks'[t].got.some]_vars

\* C40: calling the waker of a suspended task whose worker's thread has ended
\* does not fault the caller: the send of wake does not make it panic, the
\* wake is dropped (nothing is queued) and the task is not polled again.
C40_LateWakeIsDiscarded ==
    /\ [](\A t \in TaskIds : ~tasks[t].wakeFailed)
    /\ [][\A t \in TaskIds :
            (tasks[t].future = "Some" /\ ~alive[tasks[t].worker]
                /\ tasks'[t].wakes = tasks[t].wakes + 1) =>
                    /\ chan' = chan
                    /\ tasks'[t].future = "Some"]_vars

====
